---- MODULE Spec2Model ----
(***************************************************************************)
(* Corpus assembly of the MaCVi USV obstacle-detection evaluation toolkit: *)
(* convert_to_coco_structures (evaluation.py) with the overlap utilities   *)
(* (utils.py) and the two mask builders it calls.                          *)
(*                                                                         *)
(* A run is the execution of convert_to_coco_structures on one dataset     *)
(* file, one results file, a sequence filter, a mode and the ignore_class  *)
(* flag.  The inputs are fixed by Init: either files of one sequence of    *)
(* one frame, with every combination of flags, masks, obstacle lists and   *)
(* detection lists (the list of sea edges varies in mode 'edge' and the    *)
(* projected danger-zone boundary in mode 'dz', the only modes that read   *)
(* them, and an override that leaves the frame as the sequence flag has    *)
(* it comes with empty lists), or files of one frame with boxes on the     *)
(* border of the image and a static mask that is absent or unreadable, or  *)
(* files of several sequences with sample frames and every way for the     *)
(* two files to disagree.  The actions are the steps of the function:      *)
(* sequence selection, the sequence and frame loops, the annotation loop,  *)
(* the detection loop, the registration of the image and the return.  A    *)
(* raised exception ends the run in pc = "error".  A second specification, *)
(* UtilsSpec, runs single calls of compute_iou, bbox_in_mask, the score    *)
(* computation and the two mask builders.  A third, SubmissionSpec, runs   *)
(* the commands prepare-submission and unpack-submission of the tool       *)
(* (__main__.py) one after the other.                                      *)
(*                                                                         *)
(* Boxes are <<x, y, w, h>> with integer entries.  The coordinates of sea  *)
(* edges and of projected points are fractional: a coordinate v stands for *)
(* v / SubPixel.  A mask is a function from the pixels <<x, y>> of the     *)
(* image to 0..255 (numpy uint8).  Python values that may be absent (a     *)
(* dictionary key, None) are sequences of length 0 or 1.                   *)
(***************************************************************************)
EXTENDS Integers, Sequences, FiniteSets, TLC

\* ------------------------------------------------------------------ bounds

\* Most sequences in a dataset or results file.
MaxSeqs == 2
\* Most frames in a sequence.
MaxFrames == 2
\* Most obstacle annotations in a frame.
MaxObs == 2
\* Most detections in a frame.
MaxDet == 1
\* Image size in pixels (the camera's is 1278 x 958, evaluation.py:115-116).
ImageWidth == 3
ImageHeight == 3

\* ------------------------------------------------------- program constants

\* compute_iou_overlaps(..., thr=0.3), as the fraction IouThrNum / IouThrDen.
IouThrNum == 3
IouThrDen == 10
\* bbox_in_mask(..., thr=0.5), as the fraction MaskThrNum / MaskThrDen.
MaskThrNum == 1
MaskThrDen == 2
\* DANGER_ZONE_IMAGE_MARGIN
DANGER_ZONE_IMAGE_MARGIN == 10

OBSTACLE_CLASSES == <<"ship", "person", "other">>

\* OBSTACLE_CLASS_NAME_TO_ID_MAP: the index of a name in OBSTACLE_CLASSES.
ClassNames == {OBSTACLE_CLASSES[i] : i \in 1..Len(OBSTACLE_CLASSES)}
OBSTACLE_CLASS_NAME_TO_ID_MAP(name) ==
    (CHOOSE i \in 1..Len(OBSTACLE_CLASSES) : OBSTACLE_CLASSES[i] = name) - 1

\* ------------------------------------------------------------- arithmetic

Max(a, b) == IF a >= b THEN a ELSE b
Min(a, b) == IF a <= b THEN a ELSE b

\* Resolution of the fractional pixel coordinates read from the annotations
\* and produced by cv2.projectPoints: a coordinate v stands for the number
\* v / SubPixel.
SubPixel == 2

\* Python's int() of such a coordinate: truncation toward zero.
int(v) == IF v >= 0 THEN v \div SubPixel ELSE -((-v) \div SubPixel)

\* Bitwise OR of two uint8 values (numpy's |= on uint8 arrays).
RECURSIVE BitOr(_, _)
BitOr(a, b) ==
    IF a = 0 THEN b
    ELSE IF b = 0 THEN a
    ELSE Max(a % 2, b % 2) + 2 * BitOr(a \div 2, b \div 2)

\* ------------------------------------------------------------------ masks

Pixels == (0..(ImageWidth - 1)) \X (0..(ImageHeight - 1))

\* np.zeros((image_height, image_width)), np.ones(...), 255 * np.ones(...)
ZerosMask == [p \in Pixels |-> 0]
\* The all-ignore mask allocated with zeros in place of ones.
OnesMaskZeroed == [p \in Pixels |-> 0]
OnesMask == [p \in Pixels |-> 1]

\* The OR that keeps its left operand and drops the other.
MaskOrKeepFirst(m, other) == m

\* mask |= other
MaskOr(m, other) == [p \in Pixels |-> BitOr(m[p], other[p])]

\* The clamp left out: the mask keeps the values of its sources.
ClampMaskSkipped(m) == m

\* mask[mask > 0] = 1
ClampMask(m) == [p \in Pixels |-> IF m[p] > 0 THEN 1 ELSE 0]

\* A Python slice bound i on an axis of length n: a negative bound counts
\* from the end, and the result is clipped to 0..n.
SliceBound(i, n) ==
    IF i < 0 THEN Max(i + n, 0) ELSE Min(i, n)

\* The pixels of mask[y:(y + h), x:(x + w)].
SlicePixels(x, y, w, h) ==
    {p \in Pixels :
        /\ SliceBound(x, ImageWidth) <= p[1]
        /\ p[1] < SliceBound(x + w, ImageWidth)
        /\ SliceBound(y, ImageHeight) <= p[2]
        /\ p[2] < SliceBound(y + h, ImageHeight)}

\* mask[y:(y + h), x:(x + w)] = 1, the effect of a negative annotation.
ApplyNegative(m, bbox) ==
    LET roi == SlicePixels(bbox[1], bbox[2], bbox[3], bbox[4])
    IN  [p \in Pixels |-> IF p \in roi THEN 1 ELSE m[p]]

\* np.sum over a set of pixels.
RECURSIVE SumOver(_, _)
SumOver(m, S) ==
    IF S = {} THEN 0
    ELSE LET p == CHOOSE q \in S : TRUE
         IN  m[p] + SumOver(m, S \ {p})

\* ----------------------------------------------------------------- utils

\* int(round(v)): the boxes of the model have integer coordinates, on which
\* the rounding changes nothing.
RoundInt(v) == v

\* utils.bbox_in_mask: overlap / (w * h) > thr.  With w * h = 0 the region
\* is empty, the quotient is nan and the comparison is False.
bbox_in_mask_ratio(m, rect) ==
    LET x == RoundInt(rect[1])
        y == RoundInt(rect[2])
        w == RoundInt(rect[3])
        h == RoundInt(rect[4])
    IN  [overlap |-> SumOver(m, SlicePixels(x, y, w, h)), area |-> w * h]

bbox_in_mask(m, rect) ==
    LET r == bbox_in_mask_ratio(m, rect)
    IN  /\ r.area > 0
        /\ r.overlap * MaskThrDen > MaskThrNum * r.area

\* utils.compute_iou as the fraction num / den; den = 0 is the division by
\* zero of line 90.
compute_iou(bbox1, bbox2) ==
    LET x_left == Max(bbox1[1], bbox2[1])
        y_top == Max(bbox1[2], bbox2[2])
        x_right == Min(bbox1[1] + bbox1[3], bbox2[1] + bbox2[3])
        y_bottom == Min(bbox1[2] + bbox1[4], bbox2[2] + bbox2[4])
        intersection_area == (x_right - x_left) * (y_bottom - y_top)
        bbox1_area == bbox1[3] * bbox1[4]
        bbox2_area == bbox2[3] * bbox2[4]
    IN  IF x_right < x_left \/ y_bottom < y_top
        THEN [num |-> 0, den |-> 1]
        ELSE [num |-> intersection_area,
              den |-> bbox1_area + bbox2_area - intersection_area]

\* utils.compute_iou_overlaps followed by any(): some overlap value is kept,
\* that is, some IoU is strictly above thr.
AnyOverlap(rect, annotations) ==
    \E i \in 1..Len(annotations) :
        LET iou == compute_iou(rect, annotations[i].bbox)
        IN  iou.num * IouThrDen > IouThrNum * iou.den

\* ----------------------------------------------------------- mask builders

\* The pixel p lies on the polygon edge from a to b.
OnEdge(p, a, b) ==
    /\ (b[1] - a[1]) * (p[2] - a[2]) = (b[2] - a[2]) * (p[1] - a[1])
    /\ Min(a[1], b[1]) <= p[1] /\ p[1] <= Max(a[1], b[1])
    /\ Min(a[2], b[2]) <= p[2] /\ p[2] <= Max(a[2], b[2])

\* The half line from the pixel p towards larger x crosses the polygon edge
\* from a to b.
CrossesEdge(p, a, b) ==
    /\ (a[2] > p[2]) # (b[2] > p[2])
    /\ LET dy == b[2] - a[2]
            lhs == (p[1] - a[1]) * dy
            rhs == (b[1] - a[1]) * (p[2] - a[2])
        IN  IF dy > 0 THEN lhs < rhs ELSE lhs > rhs

\* cv2.fillPoly: the pixels of the image a closed polygon covers, its
\* outline included (even-odd rule).  Exact for the polygons of the model,
\* whose edges are parallel to the axes.
FillPoly(polygon) ==
    LET n == Len(polygon)
        succ(i) == IF i = n THEN 1 ELSE i + 1
    IN  {p \in Pixels :
            \/ \E i \in 1..n : OnEdge(p, polygon[i], polygon[succ(i)])
            \/ Cardinality({i \in 1..n :
                   CrossesEdge(p, polygon[i], polygon[succ(i)])}) % 2 = 1}

\* The curve left open: its points without the two closing points at y = 0.
SeaEdgePolygonOpen(sea_edge) ==
    [i \in 1..Min(Len(sea_edge.x_axis), Len(sea_edge.y_axis)) |->
        <<int(sea_edge.x_axis[i]), int(sea_edge.y_axis[i])>>]

\* sea_edge_mask.py, lines 32-42: one polygon per curve with non-empty
\* coordinate sequences.
SeaEdgePolygon(sea_edge) ==
    LET x_values == <<sea_edge.x_axis[1]>> \o sea_edge.x_axis
                        \o <<sea_edge.x_axis[Len(sea_edge.x_axis)]>>
        y_values == <<0>> \o sea_edge.y_axis \o <<0>>
    IN  [i \in 1..Min(Len(x_values), Len(y_values)) |->
            <<int(x_values[i]), int(y_values[i])>>]

SeaEdgePolygons(sea_edges) ==
    {SeaEdgePolygon(sea_edges[i]) :
        i \in {k \in 1..Len(sea_edges) :
                  /\ Len(sea_edges[k].x_axis) > 0
                  /\ Len(sea_edges[k].y_axis) > 0}}

construct_mask_from_sea_edge(sea_edges) ==
    LET filled == UNION {FillPoly(poly) : poly \in SeaEdgePolygons(sea_edges)}
    IN  [p \in Pixels |-> IF p \in filled THEN 255 ELSE 0]

\* The filter left out: every projected point is kept.
DangerZoneSurvivorsUnfiltered(projected_points) ==
    [i \in 1..Len(projected_points) |->
        <<int(projected_points[i][1]), int(projected_points[i][2])>>]

\* danger_zone_mask.py, lines 130-141: the projected points that fall within
\* the image enlarged by the margin, in sampling order.
RECURSIVE DangerZoneSurvivors(_)
DangerZoneSurvivors(projected_points) ==
    IF projected_points = <<>> THEN <<>>
    ELSE LET pt == Head(projected_points)
             x == pt[1]
             y == pt[2]
             keep ==
                 /\ -DANGER_ZONE_IMAGE_MARGIN * SubPixel <= x
                 /\ x <= (ImageWidth + DANGER_ZONE_IMAGE_MARGIN) * SubPixel
                 /\ -DANGER_ZONE_IMAGE_MARGIN * SubPixel <= y
                 /\ y <= (ImageHeight + DANGER_ZONE_IMAGE_MARGIN) * SubPixel
         IN  (IF keep THEN <<<<int(x), int(y)>>>> ELSE <<>>)
                 \o DangerZoneSurvivors(Tail(projected_points))

\* polygon[0] of line 144 raises IndexError when no point survives.
DangerZoneRaises(projected_points) ==
    DangerZoneSurvivors(projected_points) = <<>>

\* The polygon closed on the right at the height of the first point.
DangerZonePolygonFirstHeight(projected_points) ==
    LET polygon == DangerZoneSurvivors(projected_points)
        y_first == polygon[1][2]
    IN  <<<<0, ImageHeight>>, <<0, y_first>>>> \o polygon
            \o <<<<ImageWidth, y_first>>, <<ImageWidth, ImageHeight>>,
                 <<0, ImageHeight>>>>

\* danger_zone_mask.py, lines 144-150.
DangerZonePolygon(projected_points) ==
    LET polygon == DangerZoneSurvivors(projected_points)
        y_first == polygon[1][2]
        y_last == polygon[Len(polygon)][2]
    IN  <<<<0, ImageHeight>>, <<0, y_first>>>> \o polygon
            \o <<<<ImageWidth, y_last>>, <<ImageWidth, ImageHeight>>,
                 <<0, ImageHeight>>>>

\* danger_zone_mask.py, lines 153-156.  The frame's projected_points stand
\* for the result of cv2.projectPoints on the frame's roll and pitch.
construct_mask_from_danger_zone(projected_points) ==
    LET filled == FillPoly(DangerZonePolygon(projected_points))
    IN  [p \in Pixels |-> IF p \in filled THEN 0 ELSE 255]

\* ----------------------------------------------------------------- inputs

\* The j-th smallest element of a set of numbers.
NthOf(S, j) == CHOOSE i \in S : Cardinality({x \in S : x < i}) = j - 1

Reverse(l) == [i \in 1..Len(l) |-> l[Len(l) + 1 - i]]
DropLast(l) == SubSeq(l, 1, Len(l) - 1)

\* The lists of at most k elements of list l, in the order of l.
SubLists(l, k) ==
    {[j \in 1..Cardinality(S) |-> l[NthOf(S, j)]] :
        S \in {T \in SUBSET (1..Len(l)) : Cardinality(T) <= k}}

\* The boxes of the model.  BoxTop lies in the top image row, BoxLow in the
\* third row, BoxLowWide covers BoxLow, and BoxBig reaches beyond the image
\* and has an IoU of exactly 3/10 with BoxTop.
BoxTop == <<0, 0, 3, 1>>
BoxLow == <<0, 2, 2, 1>>
BoxLowWide == <<0, 2, 3, 1>>
BoxBig == <<0, 0, 5, 2>>

Obstacle(type, bbox) == [type |-> type, bbox |-> bbox, area |-> bbox[3] * bbox[4]]

\* A detection's type is a class name or a numeric class id.
TypeName(name) == [kind |-> "str", name |-> name, id |-> 0]
TypeId(id) == [kind |-> "int", name |-> "", id |-> id]
Detection(type, bbox) == [type |-> type, bbox |-> bbox]

\* The obstacle lists of a frame: up to MaxObs of four annotations, one of
\* them negative and one of a type that is no obstacle class, in this order
\* or in the opposite order.
ObstacleChoices ==
    <<Obstacle("ship", BoxTop), Obstacle("person", BoxLow),
      Obstacle("negative", BoxLowWide), Obstacle("buoy", BoxLow)>>

ObstacleLists ==
    SubLists(ObstacleChoices, MaxObs)
        \cup SubLists(Reverse(ObstacleChoices), MaxObs)

\* The detection lists of a frame: up to MaxDet of five detections, one of
\* them of a name that is no obstacle class and one of a number that is no
\* class id.
DetectionChoices ==
    <<Detection(TypeName("ship"), BoxTop), Detection(TypeId(1), BoxLowWide),
      Detection(TypeName("ship"), BoxBig), Detection(TypeName("buoy"), BoxLow),
      Detection(TypeId(Len(OBSTACLE_CLASSES) + 4), BoxTop)>>

DetectionLists == SubLists(DetectionChoices, MaxDet)

\* A sea edge along the top image row, and the list of curves of a frame.
TopEdge == [x_axis |-> <<0, ImageWidth * SubPixel>>, y_axis |-> <<0, 1>>]
WaterEdgeChoices == {<<>>, <<TopEdge>>}

\* Projected danger-zone boundary: the zone is the image from row 2 down.
ZonePoints ==
    <<<<1, 2 * SubPixel>>, <<ImageWidth * SubPixel, 2 * SubPixel + 1>>>>
\* A boundary whose first point falls just beyond the margin: the zone is
\* the image from row 1 down.
PartZonePoints ==
    <<<<-(DANGER_ZONE_IMAGE_MARGIN * SubPixel) - 1, 2 * SubPixel>>,
      <<ImageWidth * SubPixel, SubPixel>>>>
\* A boundary that projects wholly beyond the margin of the image.
FarPoints ==
    <<<<-(DANGER_ZONE_IMAGE_MARGIN * SubPixel) - 1, 2 * SubPixel>>,
      <<(ImageWidth + DANGER_ZONE_IMAGE_MARGIN) * SubPixel + 1,
        2 * SubPixel>>>>
ProjectedChoices == {ZonePoints, PartZonePoints, FarPoints}

\* The image ignore_mask.png of a sequence: the left column holds 2, the
\* top right pixel 255, every other pixel 0.
StaticMask ==
    [p \in Pixels |->
        IF p[1] = 0 THEN 2
        ELSE IF p = <<ImageWidth - 1, 0>> THEN 255 ELSE 0]

\* A dataset sequence.  mask is the optional 'mask' key; ignore_mask_png is
\* what cv2.imread returns for the sequence's mask image.
DatasetSequence(id, exhaustive, mask, frames) ==
    [id |-> id, exhaustive |-> exhaustive, mask |-> mask,
     ignore_mask_png |-> IF mask = <<>> THEN <<>> ELSE <<StaticMask>>,
     frames |-> frames]

\* A sequence that has the 'mask' key while its mask image cannot be read:
\* cv2.imread returns None for it.
DatasetSequenceUnreadableMask(id, exhaustive, frames) ==
    [DatasetSequence(id, exhaustive, <<"mask.png">>, frames)
        EXCEPT !.ignore_mask_png = <<>>]

\* A dataset frame.  exhaustive is the optional per-frame override.
DatasetFrame(sid, id, exhaustive, water_edges, projected_points, obstacles) ==
    [id |-> id, image_file_name |-> <<sid, id>>, exhaustive |-> exhaustive,
     water_edges |-> water_edges, projected_points |-> projected_points,
     obstacles |-> obstacles]

ResultsSequence(id, frames) == [id |-> id, frames |-> frames]
ResultsFrame(id, detections) == [id |-> id, detections |-> detections]

Modes == {"edge", "dz", "full"}

\* The files of a run on one sequence of one frame.
FrameDataset(se, sm, fe, we, pp, obs) ==
    <<DatasetSequence(1, se, sm, <<DatasetFrame(1, 1, fe, we, pp, obs)>>)>>

FrameResults(det) ==
    <<ResultsSequence(1, <<ResultsFrame(1, det)>>)>>

\* Boxes on the top row that reach beyond the image: over the left border,
\* over the right border with one pixel inside, and wholly to the right.
BoxLeftOut == <<-1, 0, 3, 1>>
BoxRightOut == <<ImageWidth - 1, 0, 3, 1>>
BoxBeyond == <<ImageWidth, 0, 2, 1>>
BorderBoxes == {BoxTop, BoxLeftOut, BoxRightOut, BoxBeyond}
BorderObstacleLists ==
    {<<>>} \cup {<<Obstacle("ship", b)>> : b \in BorderBoxes}
BorderDetectionLists ==
    {<<>>} \cup {<<Detection(TypeName("ship"), b)>> : b \in BorderBoxes}

\* The dataset of a run on one sequence of one frame, with boxes on the
\* border of the image, the sequence without static mask or with one that
\* cannot be read.
BorderDataset(se, readable, obs) ==
    LET frames == <<DatasetFrame(1, 1, <<>>, <<TopEdge>>, ZonePoints, obs)>>
    IN  <<IF readable THEN DatasetSequence(1, se, <<>>, frames)
          ELSE DatasetSequenceUnreadableMask(1, se, frames)>>

\* The content of frame fid of sequence sid in the runs on several
\* sequences.
SampleObstacles(sid, fid) ==
    IF fid % 2 = 1
    THEN <<Obstacle("negative", BoxLowWide), Obstacle("person", BoxLow)>>
    ELSE <<Obstacle("ship", BoxTop), Obstacle("person", BoxLow)>>

SampleDetections(sid, fid) ==
    IF fid % 2 = 1
    THEN <<Detection(TypeId(1), BoxLowWide)>>
    ELSE <<Detection(TypeName("ship"), BoxBig)>>

SampleSequence(sid, n) ==
    DatasetSequence(sid, 1, IF sid % 2 = 1 THEN <<"mask.png">> ELSE <<>>,
        [j \in 1..n |->
            DatasetFrame(sid, j, <<>>, <<TopEdge>>, ZonePoints,
                         SampleObstacles(sid, j))])

\* Datasets of sequences 1..k, k up to MaxSeqs, in ascending or descending
\* file order; the sequences with an odd id have n frames, the others
\* MaxFrames - n.
SampleDatasets ==
    {[i \in 1..Len(ids) |->
         SampleSequence(ids[i], IF ids[i] % 2 = 1 THEN n ELSE MaxFrames - n)] :
        ids \in UNION {{[i \in 1..k |-> i], [i \in 1..k |-> k + 1 - i]} :
                          k \in 0..MaxSeqs},
        n \in 0..MaxFrames}

\* The results file that matches a dataset, sequence by sequence and frame
\* by frame.
MatchingResults(ds) ==
    [i \in 1..Len(ds) |->
        ResultsSequence(ds[i].id,
            [j \in 1..Len(ds[i].frames) |->
                ResultsFrame(ds[i].frames[j].id,
                    SampleDetections(ds[i].id, ds[i].frames[j].id))])]

\* Results files that differ from the matching one: in file order, by a
\* missing sequence, or in sequence i by another id, a missing last frame,
\* an extra frame or another id of the last frame.
ResultsVariants(ds) ==
    LET rs == MatchingResults(ds)
        last(i) == Len(rs[i].frames)
    IN  {rs, Reverse(rs)}
        \cup {DropLast(rs) : k \in {1} \cap 1..Len(rs)}
        \cup {[rs EXCEPT ![i].id = MaxSeqs + 1] : i \in 1..Len(rs)}
        \cup {[rs EXCEPT ![i].frames = DropLast(@)] :
                 i \in {k \in 1..Len(rs) : last(k) > 0}}
        \cup {[rs EXCEPT ![i].frames =
                             Append(@, ResultsFrame(last(i) + 1, <<>>))] :
                 i \in 1..Len(rs)}
        \cup {[rs EXCEPT ![i].frames[last(i)].id = MaxFrames + 1] :
                 i \in {k \in 1..Len(rs) : last(k) > 0}}

\* The file system of a session of the tool before its first command: no
\* submission archive and no target directory.
NoFiles == [submission_zip |-> <<>>, target_path |-> <<>>]

\* ------------------------------------------------------------------ state

VARIABLES
    dataset,              \* dataset['sequences'] of the dataset file
    results,              \* results['sequences'] of the results file
    sequences,            \* the sequence filter (empty: all sequences)
    mode,
    ignore_class,
    pc,                   \* "start", "sequence", "frame", "obstacles",
                          \* "detections", "done" or "error"
    error,                \* the exception that ended the run, "" if none
    dataset_sequences,    \* the selected, sorted dataset sequences
    results_sequences,    \* the selected, sorted results sequences
    si,                   \* position of the sequence loop (1-based)
    fi,                   \* position of the frame loop
    oi,                   \* position of the annotation loop
    di,                   \* position of the detection loop
    sequence_exhaustive,
    sequence_mask,        \* <<>> for None, else <<array>>
    frame_exhaustive,
    mask,
    image_entries,
    annotation_entries,
    detection_entries,
    image_id,
    annotation_id,
    call,                 \* the call a run consists of: function and arguments
    returned,             \* <<>> until the call returns, then <<value>>
    files,                \* the submission archive and the target directory
    stdout                \* the lines the last command printed to stdout

inputs == <<dataset, results, sequences, mode, ignore_class>>
selected == <<dataset_sequences, results_sequences>>
corpus == <<image_entries, annotation_entries, detection_entries,
            image_id, annotation_id>>
sequence_locals == <<sequence_exhaustive, sequence_mask>>
frame_locals == <<frame_exhaustive, mask>>
utility == <<call, returned>>
shell == <<files, stdout>>
vars == <<inputs, pc, error, selected, si, fi, oi, di, sequence_locals,
          frame_locals, corpus, utility, shell>>

Init ==
    /\ \/ \E se \in {0, 1}, sm \in {<<>>, <<"mask.png">>},
             fe \in {<<>>, <<0>>, <<1>>}, we \in WaterEdgeChoices,
             pp \in ProjectedChoices,
             obs \in ObstacleLists, det \in DetectionLists,
             m \in Modes, ic \in BOOLEAN :
              /\ m # "edge" => we = <<TopEdge>>
              /\ m # "dz" => pp = ZonePoints
              /\ (fe # <<>> /\ (se = 0 \/ fe = <<1>>))
                     => (obs = <<>> /\ det = <<>>)
              /\ dataset = FrameDataset(se, sm, fe, we, pp, obs)
              /\ results = FrameResults(det)
              /\ sequences = {}
              /\ mode = m
              /\ ignore_class = ic
       \/ \E se \in {0, 1}, readable \in BOOLEAN,
             obs \in BorderObstacleLists, det \in BorderDetectionLists,
             m \in Modes :
              /\ dataset = BorderDataset(se, readable, obs)
              /\ results = FrameResults(det)
              /\ sequences = {}
              /\ mode = m
              /\ ignore_class = FALSE
       \/ \E ds \in SampleDatasets :
              \E rs \in ResultsVariants(ds), sel \in {{}, {1}}, m \in Modes :
                  /\ dataset = ds
                  /\ results = rs
                  /\ sequences = sel
                  /\ mode = m
                  /\ ignore_class = FALSE
    /\ call = [fn |-> "convert_to_coco_structures"]
    /\ returned = <<>>
    /\ files = NoFiles
    /\ stdout = <<>>
    /\ pc = "start"
    /\ error = ""
    /\ dataset_sequences = <<>>
    /\ results_sequences = <<>>
    /\ si = 0 /\ fi = 0 /\ oi = 0 /\ di = 0
    /\ sequence_exhaustive = FALSE
    /\ sequence_mask = <<>>
    /\ frame_exhaustive = FALSE
    /\ mask = ZerosMask
    /\ image_entries = <<>>
    /\ annotation_entries = <<>>
    /\ detection_entries = <<>>
    /\ image_id = 0
    /\ annotation_id = 0

\* ------------------------------------------------- selection and sorting

\* evaluation.py, lines 74-79.
SelectSequencesOf(file, filter) ==
    LET Wanted(seq) == seq.id \in filter
    IN  IF filter # {} THEN SelectSeq(file, Wanted) ELSE file

\* The sequences left in file order: what a missing sort would do.
SortByIdFileOrder(l) == l

\* list.sort(key=lambda seq: seq['id']): stable, ascending.
RECURSIVE SortById(_)
SortById(l) ==
    IF l = <<>> THEN <<>>
    ELSE LET x == l[Len(l)]
             rest == SortById(SubSeq(l, 1, Len(l) - 1))
             Before(e) == e.id <= x.id
             After(e) == e.id > x.id
         IN  SelectSeq(rest, Before) \o <<x>> \o SelectSeq(rest, After)

\* A raised exception: the run ends and nothing is returned.
Raise(exception) ==
    /\ pc' = "error"
    /\ error' = exception

\* The condition asserted at line 82.
SequenceCountsMatch(ds, rs) == Len(ds) = Len(rs)

\* Lines 74-86 with the length assertion of line 82 passing.
SelectSequences ==
    /\ pc = "start"
    /\ LET ds == SelectSequencesOf(dataset, sequences)
           rs == SelectSequencesOf(results, sequences)
       IN  /\ SequenceCountsMatch(ds, rs)
           /\ dataset_sequences' = SortById(ds)
           /\ results_sequences' = SortById(rs)
    /\ pc' = "sequence"
    /\ si' = 1
    /\ UNCHANGED <<shell, utility, inputs,
                   error, fi, oi, di, sequence_locals, frame_locals,
                   corpus>>

\* Line 82 failing.
SequenceCountMismatch ==
    /\ pc = "start"
    /\ ~SequenceCountsMatch(SelectSequencesOf(dataset, sequences),
                            SelectSequencesOf(results, sequences))
    /\ Raise("AssertionError: Mismatch in dataset and result sequences length!")
    /\ UNCHANGED <<shell, utility, inputs, selected, si, fi, oi, di,
                   sequence_locals, frame_locals, corpus>>

\* ------------------------------------------------------ the sequence loop

\* zip(dataset_sequences, results_sequences) yields as many pairs as the
\* shorter list has sequences.
SequencePairs == Min(Len(dataset_sequences), Len(results_sequences))

\* The assertion of line 98 left out.
SequenceIdsUnchecked(dataset_sequence, results_sequence) == TRUE

\* The condition asserted at line 98.
SequenceIdsMatch(dataset_sequence, results_sequence) ==
    dataset_sequence.id = results_sequence.id

\* Lines 97-127: the next pair of sequences, with the assertion of line 98
\* passing.
BeginSequence ==
    /\ pc = "sequence"
    /\ si <= SequencePairs
    /\ LET dataset_sequence == dataset_sequences[si]
           results_sequence == results_sequences[si]
       IN  /\ SequenceIdsMatch(dataset_sequence, results_sequence)
           /\ sequence_exhaustive' = (dataset_sequence.exhaustive > 0)
           /\ sequence_mask' =
                  IF dataset_sequence.mask # <<>>
                  THEN dataset_sequence.ignore_mask_png
                  ELSE <<>>
    /\ fi' = 1
    /\ pc' = "frame"
    /\ UNCHANGED <<shell, utility, inputs,
                   error, selected, si, oi, di, frame_locals, corpus>>

\* Line 98 failing.
SequenceIdMismatch ==
    /\ pc = "sequence"
    /\ si <= SequencePairs
    /\ ~SequenceIdsMatch(dataset_sequences[si], results_sequences[si])
    /\ Raise("AssertionError: Dataset and results sequence ID mismatch!")
    /\ UNCHANGED <<shell, utility, inputs, selected, si, fi, oi, di,
                   sequence_locals, frame_locals, corpus>>

\* Lines 269-286: the sequence loop is exhausted and the corpus is returned.
Return ==
    /\ pc = "sequence"
    /\ si > SequencePairs
    /\ pc' = "done"
    /\ UNCHANGED <<shell, utility, inputs,
                   error, selected, si, fi, oi, di, sequence_locals,
                   frame_locals, corpus>>

\* --------------------------------------------------------- the frame loop

dataset_frames == dataset_sequences[si].frames
results_frames == results_sequences[si].frames

\* zip(dataset_frames, results_frames) yields as many pairs as the shorter
\* list has frames.
FramePairs == Min(Len(dataset_frames), Len(results_frames))

dataset_frame == dataset_frames[fi]
results_frame == results_frames[fi]

\* The condition asserted at line 129.
FrameIdsMatch(dframe, rframe) == dframe.id = rframe.id

\* The frame's override taken whatever the sequence flag.
FrameExhaustiveOverrideWins(seq_exhaustive, frame) ==
    IF frame.exhaustive # <<>>
    THEN frame.exhaustive[1] > 0
    ELSE seq_exhaustive

\* Lines 133-138.
FrameExhaustive(seq_exhaustive, frame) ==
    IF seq_exhaustive
    THEN IF frame.exhaustive # <<>>
         THEN frame.exhaustive[1] > 0
         ELSE seq_exhaustive
    ELSE FALSE

\* Mask construction raises: the truth value of an array (line 193,
\* `if sequence_mask:` on a numpy array with more than one element), or the
\* danger-zone builder on a frame without surviving points.
MaskRaises(exhaustive, frame, seq_mask, m) ==
    \/ /\ m = "dz"
       /\ DangerZoneRaises(frame.projected_points)
    \/ /\ ~exhaustive
       /\ m = "dz"
       /\ seq_mask # <<>>

\* The sea-edge mask OR-ed in whatever the mode.
SeedMaskEdgeInAnyMode(frame, m) ==
    MaskOr(ZerosMask, construct_mask_from_sea_edge(frame.water_edges))

\* Lines 147-169: the zero mask with the mode's mask OR-ed in.
SeedMask(frame, m) ==
    IF m = "edge"
    THEN MaskOr(ZerosMask, construct_mask_from_sea_edge(frame.water_edges))
    ELSE IF m = "dz"
    THEN MaskOr(ZerosMask,
                construct_mask_from_danger_zone(frame.projected_points))
    ELSE ZerosMask

\* The mask buffer of the frame before kept: an exhaustive frame's mask is
\* OR-ed into it instead of into a zero mask.
ConstructMaskOnOldBuffer(exhaustive, frame, seq_mask, m) ==
    IF exhaustive
    THEN LET seeded == MaskOr(mask, SeedMask(frame, m))
             combined ==
                 IF seq_mask # <<>> THEN MaskOr(seeded, seq_mask[1]) ELSE seeded
         IN  ClampMask(combined)
    ELSE IF m = "dz"
    THEN ClampMask(construct_mask_from_danger_zone(frame.projected_points))
    ELSE OnesMask

\* Lines 146-199.
ConstructMask(exhaustive, frame, seq_mask, m) ==
    IF exhaustive
    THEN LET seeded == SeedMask(frame, m)
             combined ==
                 IF seq_mask # <<>> THEN MaskOr(seeded, seq_mask[1]) ELSE seeded
         IN  ClampMask(combined)
    ELSE IF m = "dz"
    THEN ClampMask(construct_mask_from_danger_zone(frame.projected_points))
    ELSE OnesMask

\* Lines 128-203: the next pair of frames, with the assertion of line 129
\* passing and the mask built.
BeginFrame ==
    /\ pc = "frame"
    /\ fi <= FramePairs
    /\ FrameIdsMatch(dataset_frame, results_frame)
    /\ LET exhaustive == FrameExhaustive(sequence_exhaustive, dataset_frame)
       IN  /\ ~MaskRaises(exhaustive, dataset_frame, sequence_mask, mode)
           /\ frame_exhaustive' = exhaustive
           /\ mask' = ConstructMask(exhaustive, dataset_frame, sequence_mask,
                                    mode)
    /\ oi' = 1
    /\ pc' = "obstacles"
    /\ UNCHANGED <<shell, utility, inputs,
                   error, selected, si, fi, di, sequence_locals,
                   corpus>>

\* Line 129 failing.
FrameIdMismatch ==
    /\ pc = "frame"
    /\ fi <= FramePairs
    /\ ~FrameIdsMatch(dataset_frame, results_frame)
    /\ Raise("AssertionError: Dataset and results frame ID mismatch!")
    /\ UNCHANGED <<shell, utility, inputs, selected, si, fi, oi, di,
                   sequence_locals, frame_locals, corpus>>

\* The exception of a failing mask construction: the danger-zone builder
\* runs first (lines 179-190), the test of the static mask after it (193).
MaskException(frame, m) ==
    IF m = "dz" /\ DangerZoneRaises(frame.projected_points)
    THEN "IndexError: list index out of range"
    ELSE "ValueError: The truth value of an array is ambiguous"

\* Mask construction raising.
MaskError ==
    /\ pc = "frame"
    /\ fi <= FramePairs
    /\ FrameIdsMatch(dataset_frame, results_frame)
    /\ LET exhaustive == FrameExhaustive(sequence_exhaustive, dataset_frame)
       IN  /\ MaskRaises(exhaustive, dataset_frame, sequence_mask, mode)
           /\ frame_exhaustive' = exhaustive
    /\ Raise(MaskException(dataset_frame, mode))
    /\ UNCHANGED <<shell, utility, inputs,
                   selected, si, fi, oi, di, sequence_locals, mask,
                   corpus>>

\* The frame loop of a sequence is exhausted: on to the next sequence.
EndSequence ==
    /\ pc = "frame"
    /\ fi > FramePairs
    /\ si' = si + 1
    /\ pc' = "sequence"
    /\ UNCHANGED <<shell, utility, inputs,
                   error, selected, fi, oi, di, sequence_locals,
                   frame_locals, corpus>>

\* ---------------------------------------------------- the annotation loop

annotated_obstacles == dataset_frame.obstacles
detected_obstacles == results_frame.detections

\* The annotation skipped in every mode.
DropAnnotationAnyMode(ignore, matched, m) ==
    ignore /\ ~matched

\* The annotation skipped in mode 'dz' on its mask coverage alone.
DropAnnotationMatchedToo(ignore, matched, m) ==
    ignore /\ m = "dz"

\* Lines 216-218: the annotation is skipped.
DropAnnotation(ignore, matched, m) ==
    ignore /\ ~matched /\ m = "dz"

\* Lines 220-223; the lookup of line 223 raises KeyError on a type that is
\* no obstacle class.
AnnotationClassRaises(a, ic) ==
    ~ic /\ a.type \notin ClassNames

AnnotationClassId(a, ic) ==
    IF ic THEN 0 ELSE OBSTACLE_CLASS_NAME_TO_ID_MAP(a.type)

\* The entry numbered with the image id in place of the annotation id.
AnnotationEntryImageAsId(a, id, img, class_id, ignore) ==
    [id |-> img, image_id |-> img, category_id |-> class_id, bbox |-> a.bbox,
     iscrowd |-> 0, area |-> a.area, segmentation |-> <<>>,
     ignore |-> IF ignore THEN 1 ELSE 0]

\* Lines 225-234.
AnnotationEntry(a, id, img, class_id, ignore) ==
    [id |-> id, image_id |-> img, category_id |-> class_id, bbox |-> a.bbox,
     iscrowd |-> 0, area |-> a.area, segmentation |-> <<>>,
     ignore |-> IF ignore THEN 1 ELSE 0]

\* Lines 205-235: one pass of the annotation loop body.
ProcessAnnotation ==
    /\ pc = "obstacles"
    /\ oi <= Len(annotated_obstacles)
    /\ LET annotated_obstacle == annotated_obstacles[oi]
           bbox == annotated_obstacle.bbox
           ignore == bbox_in_mask(mask, bbox)
           matched == AnyOverlap(bbox, detected_obstacles)
       IN  IF annotated_obstacle.type = "negative"
           THEN /\ mask' = ApplyNegative(mask, bbox)
                /\ UNCHANGED <<annotation_entries, annotation_id>>
           ELSE IF DropAnnotation(ignore, matched, mode)
           THEN UNCHANGED <<mask, annotation_entries, annotation_id>>
           ELSE /\ ~AnnotationClassRaises(annotated_obstacle, ignore_class)
                /\ annotation_entries' =
                       Append(annotation_entries,
                              AnnotationEntry(annotated_obstacle,
                                  annotation_id, image_id,
                                  AnnotationClassId(annotated_obstacle,
                                                    ignore_class),
                                  ignore))
                /\ annotation_id' = annotation_id + 1
                /\ UNCHANGED mask
    /\ oi' = oi + 1
    /\ UNCHANGED <<shell, utility, inputs,
                   pc, error, selected, si, fi, di, sequence_locals,
                   frame_exhaustive, image_entries, detection_entries,
                   image_id>>

\* Line 223 raising KeyError.
AnnotationClassError ==
    /\ pc = "obstacles"
    /\ oi <= Len(annotated_obstacles)
    /\ LET annotated_obstacle == annotated_obstacles[oi]
           bbox == annotated_obstacle.bbox
       IN  /\ annotated_obstacle.type # "negative"
           /\ ~DropAnnotation(bbox_in_mask(mask, bbox),
                              AnyOverlap(bbox, detected_obstacles), mode)
           /\ AnnotationClassRaises(annotated_obstacle, ignore_class)
    /\ Raise("KeyError")
    /\ UNCHANGED <<shell, utility, inputs, selected, si, fi, oi, di,
                   sequence_locals, frame_locals, corpus>>

\* The annotation loop is exhausted: on to the detection loop.
EndAnnotations ==
    /\ pc = "obstacles"
    /\ oi > Len(annotated_obstacles)
    /\ di' = 1
    /\ pc' = "detections"
    /\ UNCHANGED <<shell, utility, inputs,
                   error, selected, si, fi, oi, sequence_locals,
                   frame_locals, corpus>>

\* ----------------------------------------------------- the detection loop

\* The detection skipped whether or not an annotation overlaps it.
DropDetectionMatchedToo(ignore, matched, m) ==
    ignore /\ m = "dz"

\* Lines 241-243: the detection is skipped.
DropDetection(ignore, matched, m) ==
    ignore /\ ~matched /\ m = "dz"

\* Lines 245-251; the lookup of line 251 raises KeyError on a name that is
\* no obstacle class.
DetectionClassRaises(d, ic) ==
    ~ic /\ d.type.kind = "str" /\ d.type.name \notin ClassNames

DetectionClassId(d, ic) ==
    IF ic THEN 0
    ELSE IF d.type.kind = "str"
    THEN OBSTACLE_CLASS_NAME_TO_ID_MAP(d.type.name)
    ELSE d.type.id

\* Lines 253-259.
DetectionEntry(d, img, class_id, ignore) ==
    [image_id |-> img, category_id |-> class_id, bbox |-> d.bbox,
     score |-> 1, ignore |-> IF ignore THEN 1 ELSE 0]

\* Lines 237-259: one pass of the detection loop body.
ProcessDetection ==
    /\ pc = "detections"
    /\ di <= Len(detected_obstacles)
    /\ LET detected_obstacle == detected_obstacles[di]
           bbox == detected_obstacle.bbox
           ignore == bbox_in_mask(mask, bbox)
           matched == AnyOverlap(bbox, annotated_obstacles)
       IN  IF DropDetection(ignore, matched, mode)
           THEN UNCHANGED detection_entries
           ELSE /\ ~DetectionClassRaises(detected_obstacle, ignore_class)
                /\ detection_entries' =
                       Append(detection_entries,
                              DetectionEntry(detected_obstacle, image_id,
                                  DetectionClassId(detected_obstacle,
                                                   ignore_class),
                                  ignore))
    /\ di' = di + 1
    /\ UNCHANGED <<shell, utility, inputs,
                   pc, error, selected, si, fi, oi, sequence_locals,
                   frame_locals, image_entries, annotation_entries, image_id,
                   annotation_id>>

\* Line 251 raising KeyError.
DetectionClassError ==
    /\ pc = "detections"
    /\ di <= Len(detected_obstacles)
    /\ LET detected_obstacle == detected_obstacles[di]
           bbox == detected_obstacle.bbox
       IN  /\ ~DropDetection(bbox_in_mask(mask, bbox),
                             AnyOverlap(bbox, annotated_obstacles), mode)
           /\ DetectionClassRaises(detected_obstacle, ignore_class)
    /\ Raise("KeyError")
    /\ UNCHANGED <<shell, utility, inputs, selected, si, fi, oi, di,
                   sequence_locals, frame_locals, corpus>>

\* Lines 261-267.
ImageEntry(frame, id) ==
    [id |-> id, width |-> ImageWidth, height |-> ImageHeight,
     file_name |-> frame.image_file_name]

\* The detection loop is exhausted: the image is registered and the frame
\* loop moves on.
RegisterImage ==
    /\ pc = "detections"
    /\ di > Len(detected_obstacles)
    /\ image_entries' = Append(image_entries, ImageEntry(dataset_frame, image_id))
    /\ image_id' = image_id + 1
    /\ fi' = fi + 1
    /\ pc' = "frame"
    /\ UNCHANGED <<shell, utility, inputs,
                   error, selected, si, oi, di, sequence_locals,
                   frame_locals, annotation_entries, detection_entries,
                   annotation_id>>

\* ---------------------------------------------------------- specification

Next ==
    \/ SelectSequences
    \/ SequenceCountMismatch
    \/ BeginSequence
    \/ SequenceIdMismatch
    \/ Return
    \/ BeginFrame
    \/ FrameIdMismatch
    \/ MaskError
    \/ EndSequence
    \/ ProcessAnnotation
    \/ AnnotationClassError
    \/ EndAnnotations
    \/ ProcessDetection
    \/ DetectionClassError
    \/ RegisterImage

Spec == Init /\ [][Next]_vars

\* ------------------------------------------------- the run, declaratively
\* The inputs of the run as the claims speak of them.

\* The sequences of a file that the filter selects, by id.
SelectedIds(file) ==
    {file[i].id : i \in {k \in 1..Len(file) :
                            sequences = {} \/ file[k].id \in sequences}}

SequenceOf(file, id) ==
    file[CHOOSE i \in 1..Len(file) : file[i].id = id]

\* The frames of the selected sequences in ascending order of sequence id
\* and, within a sequence, in the frame order of the file, each with its
\* sequence and the results frame at the same position.
RECURSIVE FramesOfIds(_)
FramesOfIds(ids) ==
    IF ids = {} THEN <<>>
    ELSE LET id == CHOOSE a \in ids : \A b \in ids : a <= b
             ds == SequenceOf(dataset, id)
             rs == SequenceOf(results, id)
         IN  [j \in 1..Min(Len(ds.frames), Len(rs.frames)) |->
                 [sequence |-> ds, dataset_frame |-> ds.frames[j],
                  results_frame |-> rs.frames[j]]]
             \o FramesOfIds(ids \ {id})

ProcessedFrames == FramesOfIds(SelectedIds(dataset))

\* The entries of a list that belong to image img.
EntriesOfImage(entries, img) ==
    LET OfImage(e) == e.image_id = img
    IN  SelectSeq(entries, OfImage)

\* ------------------------------------------------------------------ claims

\* C1: in the returned corpus the image ids are unique and are exactly
\* 0..N-1, N the number of processed frames, and they are assigned in order
\* of ascending sequence id and, within a sequence, in the frame order of
\* the file, whatever the order of the sequences in the two files.
C1_ImageIdsInSequenceOrder ==
    /\ \A k \in 1..Len(image_entries) : image_entries[k].id = k - 1
    /\ pc = "done" =>
        /\ Len(image_entries) = Len(ProcessedFrames)
        /\ \A k \in 1..Len(image_entries) :
               image_entries[k].file_name =
                   ProcessedFrames[k].dataset_frame.image_file_name

\* C1 witness: a corpus of two images or more from two sequences is returned for a dataset
\* file that lists its sequences in descending order of id.
C1_Witness ==
    /\ pc = "done"
    /\ Len(image_entries) >= 2
    /\ Len(dataset) >= 2
    /\ dataset[1].id > dataset[2].id
    /\ \E k \in 1..Len(image_entries) :
           image_entries[k].file_name[1] # image_entries[1].file_name[1]

\* The mask of a processed frame before its annotation loop.
FrameBaseMask(pf) ==
    ConstructMask(FrameExhaustive(pf.sequence.exhaustive > 0, pf.dataset_frame),
                  pf.dataset_frame,
                  IF pf.sequence.mask # <<>>
                  THEN pf.sequence.ignore_mask_png ELSE <<>>,
                  mode)

\* Mask m with the boxes of the negative annotations among the first n
\* obstacles set to 1.
RECURSIVE NegativesApplied(_, _, _)
NegativesApplied(m, obs, n) ==
    IF n = 0 THEN m
    ELSE LET before == NegativesApplied(m, obs, n - 1)
         IN  IF obs[n].type = "negative"
             THEN ApplyNegative(before, obs[n].bbox)
             ELSE before

\* The IoU of two boxes is strictly above 0.3.
IouAboveThreshold(b1, b2) ==
    LET iou == compute_iou(b1, b2)
    IN  iou.num * 10 > 3 * iou.den

\* Annotation i of a processed frame: its mask-coverage flag when the loop
\* reaches it, whether a detection of the frame matches it, and whether the
\* rule of claim C2 has it emitted.
AnnIgnore(pf, i) ==
    LET obs == pf.dataset_frame.obstacles
    IN  bbox_in_mask(NegativesApplied(FrameBaseMask(pf), obs, i - 1),
                     obs[i].bbox)

AnnMatched(pf, i) ==
    \E j \in 1..Len(pf.results_frame.detections) :
        IouAboveThreshold(pf.dataset_frame.obstacles[i].bbox,
                          pf.results_frame.detections[j].bbox)

AnnEmitted(pf, i) ==
    /\ pf.dataset_frame.obstacles[i].type # "negative"
    /\ ~(mode = "dz" /\ AnnIgnore(pf, i) /\ ~AnnMatched(pf, i))

AnnEmittedIndices(pf) ==
    {i \in 1..Len(pf.dataset_frame.obstacles) : AnnEmitted(pf, i)}

\* C2: for every non-negative annotation a of a frame, with ignore =
\* bbox_in_mask(mask, a.bbox) and matched = (some detection of the frame has
\* IoU with a strictly above 0.3): if ignore and not matched, a is not
\* emitted in mode 'dz' and is emitted with ignore=1 in modes 'edge' and
\* 'full'; in every other case a is emitted with its ignore field equal to
\* the computed flag.  Stated of the returned corpus: the annotation entries
\* of each image are, in order, the annotations the rule emits, each with
\* its box, area and flag.
C2_AnnotationRule ==
    pc = "done" =>
        \A k \in 1..Len(ProcessedFrames) :
            LET pf == ProcessedFrames[k]
                obs == pf.dataset_frame.obstacles
                es == EntriesOfImage(annotation_entries, k - 1)
                em == AnnEmittedIndices(pf)
            IN  /\ Len(es) = Cardinality(em)
                /\ \A j \in 1..Len(es) :
                       LET i == NthOf(em, j)
                       IN  /\ es[j].bbox = obs[i].bbox
                           /\ es[j].area = obs[i].area
                           /\ es[j].ignore = IF AnnIgnore(pf, i) THEN 1 ELSE 0

\* C2 witness: a corpus returned in mode 'dz' for frames with an annotation
\* that is ignored and unmatched, hence left out, and an annotation that is
\* ignored and matched, hence emitted with ignore=1.
C2_Witness ==
    /\ pc = "done"
    /\ mode = "dz"
    /\ \E k \in 1..Len(ProcessedFrames) :
        LET pf == ProcessedFrames[k]
        IN  \E i \in 1..Len(pf.dataset_frame.obstacles) :
                /\ pf.dataset_frame.obstacles[i].type # "negative"
                /\ AnnIgnore(pf, i) /\ ~AnnMatched(pf, i)
    /\ \E k \in 1..Len(ProcessedFrames) :
        LET pf == ProcessedFrames[k]
        IN  /\ \E i \in 1..Len(pf.dataset_frame.obstacles) :
                   /\ pf.dataset_frame.obstacles[i].type # "negative"
                   /\ AnnIgnore(pf, i) /\ AnnMatched(pf, i)
            /\ \E x \in 1..Len(annotation_entries) :
                   /\ annotation_entries[x].image_id = k - 1
                   /\ annotation_entries[x].ignore = 1

\* Detection j of a processed frame: its mask-coverage flag (the detection
\* loop runs after the annotation loop, on the mask with every negative
\* annotation of the frame applied), and whether an annotation of the frame
\* overlaps it.
DetIgnore(pf, j) ==
    LET obs == pf.dataset_frame.obstacles
    IN  bbox_in_mask(NegativesApplied(FrameBaseMask(pf), obs, Len(obs)),
                     pf.results_frame.detections[j].bbox)

DetMatched(pf, j) ==
    \E i \in 1..Len(pf.dataset_frame.obstacles) :
        IouAboveThreshold(pf.results_frame.detections[j].bbox,
                          pf.dataset_frame.obstacles[i].bbox)

DetEmittedIndices(pf) ==
    {j \in 1..Len(pf.results_frame.detections) :
        ~(mode = "dz" /\ DetIgnore(pf, j) /\ ~DetMatched(pf, j))}

\* C3: a detection d of a frame is left out of the corpus exactly when mode
\* is 'dz', bbox_in_mask(mask, d.bbox) is true and d has IoU at most 0.3
\* with every annotation of the frame; in every other case d is emitted with
\* score 1, the image id of its frame and ignore equal to the computed
\* mask-coverage flag.
C3_DetectionRule ==
    pc = "done" =>
        /\ \A x \in 1..Len(detection_entries) :
               /\ detection_entries[x].image_id \in 0..(Len(ProcessedFrames) - 1)
               /\ detection_entries[x].score = 1
        /\ \A k \in 1..Len(ProcessedFrames) :
            LET pf == ProcessedFrames[k]
                det == pf.results_frame.detections
                es == EntriesOfImage(detection_entries, k - 1)
                em == DetEmittedIndices(pf)
            IN  /\ Len(es) = Cardinality(em)
                /\ \A n \in 1..Len(es) :
                       LET j == NthOf(em, n)
                       IN  /\ es[n].bbox = det[j].bbox
                           /\ es[n].ignore = IF DetIgnore(pf, j) THEN 1 ELSE 0

\* C3 witness: a corpus returned in mode 'dz' from which a detection was
\* left out, one frame of which has a detection that is ignored yet
\* overlaps an annotation and is emitted with ignore=1.
C3_Witness ==
    /\ pc = "done"
    /\ mode = "dz"
    /\ \E k \in 1..Len(ProcessedFrames) :
        LET pf == ProcessedFrames[k]
        IN  \E j \in 1..Len(pf.results_frame.detections) :
                DetIgnore(pf, j) /\ ~DetMatched(pf, j)
    /\ \E k \in 1..Len(ProcessedFrames) :
        LET pf == ProcessedFrames[k]
        IN  /\ \E j \in 1..Len(pf.results_frame.detections) :
                   DetIgnore(pf, j) /\ DetMatched(pf, j)
            /\ \E x \in 1..Len(detection_entries) :
                   /\ detection_entries[x].image_id = k - 1
                   /\ detection_entries[x].ignore = 1

\* The number of sequences of a file that the filter selects.
SelectedCount(file) ==
    Cardinality({k \in 1..Len(file) :
                    sequences = {} \/ file[k].id \in sequences})

\* The selected sequences of the two files differ in number, or in id at
\* some position once both are sorted by id.
SequenceMismatch ==
    \/ SelectedCount(dataset) # SelectedCount(results)
    \/ \E k \in 1..SelectedCount(dataset) :
           NthOf(SelectedIds(dataset), k) # NthOf(SelectedIds(results), k)

\* C4: if the selected ground-truth sequences and the selected results
\* sequences differ in number, or differ in id at some position once both
\* are sorted by id, the run aborts with an error and returns no corpus: it
\* never reaches the return, and it goes on until an exception ends it.
C4_SequenceMismatchAborts ==
    SequenceMismatch =>
        /\ pc # "done"
        /\ pc = "error" \/ ENABLED Next

\* C4 witness: two files with as many selected sequences each, the ids of
\* which differ at a later position: the run has built entries for the first
\* sequence when the assertion of line 98 ends it.
C4_Witness ==
    /\ SequenceMismatch
    /\ SelectedCount(dataset) = SelectedCount(results)
    /\ pc = "error"
    /\ error = "AssertionError: Dataset and results sequence ID mismatch!"
    /\ Len(image_entries) > 0

\* Some sequence selected in both files has frame lists that differ in
\* number of frames or in frame id at some position.
FrameMismatch ==
    \E id \in SelectedIds(dataset) \cap SelectedIds(results) :
        LET df == SequenceOf(dataset, id).frames
            rf == SequenceOf(results, id).frames
        IN  \/ Len(df) # Len(rf)
            \/ \E j \in 1..Len(df) : df[j].id # rf[j].id

\* C5: if, for some selected sequence, the ground-truth frame list and the
\* results frame list differ in number of frames or in frame id at some
\* position, the run aborts with an error and returns no corpus.
C5_FrameMismatchAborts ==
    FrameMismatch => pc # "done"

\* The number of annotations the rule of C2 emits for the first n processed
\* frames.
RECURSIVE EmittedUpTo(_)
EmittedUpTo(n) ==
    IF n = 0 THEN 0
    ELSE Cardinality(AnnEmittedIndices(ProcessedFrames[n])) + EmittedUpTo(n - 1)

\* C6: annotation ids in the returned corpus are exactly 0..M-1 in emission
\* order, M the number of emitted annotations: the counter advances exactly
\* once per emitted annotation and never for a negative annotation or for
\* an annotation dropped in 'dz' mode, and no negative annotation appears
\* among the emitted annotations.
C6_AnnotationIds ==
    /\ annotation_id = Len(annotation_entries)
    /\ \A k \in 1..Len(annotation_entries) : annotation_entries[k].id = k - 1
    /\ pc = "done" =>
        /\ Len(annotation_entries) = EmittedUpTo(Len(ProcessedFrames))
        /\ \A k \in 1..Len(annotation_entries) :
               LET e == annotation_entries[k]
                   obs == ProcessedFrames[e.image_id + 1].dataset_frame.obstacles
               IN  /\ k > 1 => annotation_entries[k - 1].image_id <= e.image_id
                   /\ \E i \in 1..Len(obs) :
                          /\ obs[i].type # "negative"
                          /\ obs[i].bbox = e.bbox
                          /\ obs[i].area = e.area

\* C6 witness: a corpus returned in mode 'dz' with annotations of two
\* images, built from frames that hold a negative annotation and an
\* annotation that was dropped.
C6_Witness ==
    /\ pc = "done"
    /\ mode = "dz"
    /\ Len(annotation_entries) >= 2
    /\ annotation_entries[1].image_id
           # annotation_entries[Len(annotation_entries)].image_id
    /\ \E k \in 1..Len(ProcessedFrames) :
           \E i \in 1..Len(ProcessedFrames[k].dataset_frame.obstacles) :
               ProcessedFrames[k].dataset_frame.obstacles[i].type = "negative"
    /\ \E k \in 1..Len(ProcessedFrames) :
           LET pf == ProcessedFrames[k]
           IN  \E i \in 1..Len(pf.dataset_frame.obstacles) :
                   /\ pf.dataset_frame.obstacles[i].type # "negative"
                   /\ ~AnnEmitted(pf, i)

\* A processed frame is exhaustive: the sequence's flag is positive and the
\* frame carries no override or a positive one.
IsExhaustiveFrame(pf) ==
    /\ pf.sequence.exhaustive > 0
    /\ \/ pf.dataset_frame.exhaustive = <<>>
       \/ pf.dataset_frame.exhaustive[1] > 0

\* The indices of the non-negative annotations of a processed frame.
NonNegativeIndices(pf) ==
    {i \in 1..Len(pf.dataset_frame.obstacles) :
        pf.dataset_frame.obstacles[i].type # "negative"}

\* A box of positive size that lies wholly inside the image.
InsideImage(b) ==
    /\ b[1] >= 0 /\ b[2] >= 0 /\ b[3] > 0 /\ b[4] > 0
    /\ b[1] + b[3] <= ImageWidth
    /\ b[2] + b[4] <= ImageHeight

\* C7 as stated: for a non-exhaustive frame processed with mode 'edge',
\* every annotation and every detection of that frame is excluded from the
\* corpus: none appears among the emitted entries.
C7_NonExhaustiveEdgeExcluded ==
    (pc = "done" /\ mode = "edge") =>
        \A k \in 1..Len(ProcessedFrames) :
            ~IsExhaustiveFrame(ProcessedFrames[k]) =>
                /\ EntriesOfImage(annotation_entries, k - 1) = <<>>
                /\ EntriesOfImage(detection_entries, k - 1) = <<>>

\* C7 amended: for a non-exhaustive frame processed with mode 'edge', no
\* box is left out of the corpus: every non-negative annotation and every
\* detection of the frame is emitted, in order, and carries ignore=1
\* whenever its box lies wholly inside the image.
C7_NonExhaustiveEdgeIgnored ==
    (pc = "done" /\ mode = "edge") =>
        \A k \in 1..Len(ProcessedFrames) :
            LET pf == ProcessedFrames[k]
                obs == pf.dataset_frame.obstacles
                det == pf.results_frame.detections
                aes == EntriesOfImage(annotation_entries, k - 1)
                des == EntriesOfImage(detection_entries, k - 1)
                nn == NonNegativeIndices(pf)
            IN  ~IsExhaustiveFrame(pf) =>
                    /\ Len(aes) = Cardinality(nn)
                    /\ \A j \in 1..Len(aes) :
                           /\ aes[j].bbox = obs[NthOf(nn, j)].bbox
                           /\ InsideImage(aes[j].bbox) => aes[j].ignore = 1
                    /\ Len(des) = Len(det)
                    /\ \A j \in 1..Len(des) :
                           /\ des[j].bbox = det[j].bbox
                           /\ InsideImage(des[j].bbox) => des[j].ignore = 1

\* C7 witness: a corpus returned in mode 'edge' with a non-exhaustive frame
\* that has an annotation and a detection, both emitted with ignore=1.
C7_Witness ==
    /\ pc = "done"
    /\ mode = "edge"
    /\ \E k \in 1..Len(ProcessedFrames) :
        /\ ~IsExhaustiveFrame(ProcessedFrames[k])
        /\ \E x \in 1..Len(annotation_entries) :
               /\ annotation_entries[x].image_id = k - 1
               /\ annotation_entries[x].ignore = 1
        /\ \E x \in 1..Len(detection_entries) :
               /\ detection_entries[x].image_id = k - 1
               /\ detection_entries[x].ignore = 1

\* An exhaustive frame of a sequence without static mask.
IsUnmaskedExhaustiveFrame(pf) ==
    /\ IsExhaustiveFrame(pf)
    /\ pf.sequence.mask = <<>>

NegativePixelsBefore(pf, i) ==
    LET obs == pf.dataset_frame.obstacles
    IN  UNION {SlicePixels(obs[n].bbox[1], obs[n].bbox[2],
                           obs[n].bbox[3], obs[n].bbox[4]) :
                  n \in {x \in 1..(i - 1) : obs[x].type = "negative"}}

AnnIgnoreNegativesFirst(pf, i) ==
    LET obs == pf.dataset_frame.obstacles
    IN  bbox_in_mask(NegativesApplied(FrameBaseMask(pf), obs, Len(obs)),
                     obs[i].bbox)

AnnEmittedNegativesFirst(pf) ==
    {i \in NonNegativeIndices(pf) :
        ~(mode = "dz" /\ AnnIgnoreNegativesFirst(pf, i) /\ ~AnnMatched(pf, i))}

\* C9: within a frame, the box regions of all negative annotations are set
\* to 1 in the mask before any non-negative annotation of that frame is
\* evaluated: the ignore flag of a non-negative annotation is the same
\* whether the negative annotations come before or after it in the frame's
\* obstacle list.
C9_NegativesBeforeAnnotations ==
    pc = "done" =>
        \A k \in 1..Len(ProcessedFrames) :
            LET pf == ProcessedFrames[k]
                es == EntriesOfImage(annotation_entries, k - 1)
                em == AnnEmittedNegativesFirst(pf)
            IN  /\ Len(es) = Cardinality(em)
                /\ \A j \in 1..Len(es) :
                       es[j].ignore =
                           IF AnnIgnoreNegativesFirst(pf, NthOf(em, j))
                           THEN 1 ELSE 0

\* C10: a frame is treated as exhaustive iff the sequence's exhaustive flag
\* is positive and either the frame carries no 'exhaustive' override or its
\* override is positive; a frame override never makes a frame of a
\* non-exhaustive sequence exhaustive.  Read off the frame_exhaustive flag
\* while the frame is processed, and off the all-ones mask that a
\* non-exhaustive frame gets outside mode 'dz'.
C10_FrameExhaustive ==
    pc \in {"obstacles", "detections"} =>
        LET expected ==
                /\ dataset_sequences[si].exhaustive > 0
                /\ \/ dataset_frame.exhaustive = <<>>
                   \/ dataset_frame.exhaustive[1] > 0
        IN  /\ frame_exhaustive = expected
            /\ dataset_sequences[si].exhaustive <= 0 => ~frame_exhaustive
            /\ (pc = "obstacles" /\ oi = 1 /\ mode # "dz") =>
                   ((\A p \in Pixels : mask[p] = 1) <=> ~expected)

\* C10 witness: a frame with a positive override in a sequence whose flag
\* is not positive is processed as non-exhaustive.
C10_Witness ==
    /\ pc = "obstacles"
    /\ dataset_sequences[si].exhaustive = 0
    /\ dataset_frame.exhaustive = <<1>>
    /\ ~frame_exhaustive

\* The static mask image of the sequence being processed, all zero when the
\* sequence has none.
StaticMaskOf(seq) ==
    IF seq.mask # <<>> /\ seq.ignore_mask_png # <<>>
    THEN seq.ignore_mask_png[1]
    ELSE ZerosMask

\* Some source of the mode is non-zero at pixel p: the static mask in every
\* mode, the sea-edge mask in mode 'edge', the danger-zone mask in mode 'dz'.
SourceNonZero(seq, frame, m, p) ==
    \/ StaticMaskOf(seq)[p] # 0
    \/ /\ m = "edge"
       /\ construct_mask_from_sea_edge(frame.water_edges)[p] # 0
    \/ /\ m = "dz"
       /\ construct_mask_from_danger_zone(frame.projected_points)[p] # 0

\* C11: for an exhaustive frame the mask before negative annotations is,
\* pixel by pixel, the OR of the sea-edge mask and the static mask in mode
\* 'edge', of the danger-zone mask and the static mask in mode 'dz', and the
\* static mask alone in mode 'full' (all zero without one): a pixel is 1 iff
\* a source of the mode is non-zero there and 0 otherwise, and in mode
\* 'full' neither the sea edge nor the danger zone has any effect.
C11_ExhaustiveMask ==
    (pc = "obstacles" /\ oi = 1 /\ frame_exhaustive) =>
        \A p \in Pixels :
            mask[p] = IF SourceNonZero(dataset_sequences[si], dataset_frame,
                                       mode, p)
                      THEN 1 ELSE 0

\* C11 witness: an exhaustive frame of a sequence with a static mask in mode
\* 'edge', the mask of which has a pixel set by the static mask alone, a
\* pixel set by the sea edge alone and a pixel left at 0.
C11_Witness ==
    /\ pc = "obstacles" /\ oi = 1 /\ frame_exhaustive
    /\ mode = "edge"
    /\ LET static == StaticMaskOf(dataset_sequences[si])
           edge == construct_mask_from_sea_edge(dataset_frame.water_edges)
       IN  /\ \E p \in Pixels : static[p] # 0 /\ edge[p] = 0 /\ mask[p] = 1
           /\ \E p \in Pixels : static[p] = 0 /\ edge[p] # 0 /\ mask[p] = 1
           /\ \E p \in Pixels : mask[p] = 0

\* C12: for a non-exhaustive frame processed with mode 'dz', the frame's
\* mask is the danger-zone mask OR-ed with the sequence's static mask and
\* clamped to {0,1}, and the frame is processed without error, both when
\* the sequence has a static mask and when it has none: mask construction
\* does not end the run unless the danger-zone builder itself fails.
C12_NonExhaustiveDzMask ==
    mode = "dz" =>
        /\ pc = "error" =>
               error # "ValueError: The truth value of an array is ambiguous"
        /\ (pc = "obstacles" /\ oi = 1 /\ ~frame_exhaustive) =>
               \A p \in Pixels :
                   mask[p] = IF SourceNonZero(dataset_sequences[si],
                                              dataset_frame, mode, p)
                             THEN 1 ELSE 0

\* The category of an annotation or of a detection is one of the fixed
\* enumeration: a class name, or for a detection a number that is the id
\* of a class.
AnnotationCategoryKnown(a) == a.type \in ClassNames

DetectionCategoryKnown(d) ==
    IF d.type.kind = "str"
    THEN d.type.name \in ClassNames
    ELSE d.type.id \in 0..(Len(OBSTACLE_CLASSES) - 1)

\* A processed frame carries a category that is not in the enumeration.
HasUnknownCategory(pf) ==
    \/ \E i \in NonNegativeIndices(pf) :
           ~AnnotationCategoryKnown(pf.dataset_frame.obstacles[i])
    \/ \E j \in 1..Len(pf.results_frame.detections) :
           ~DetectionCategoryKnown(pf.results_frame.detections[j])

\* C13: whenever an annotation or a detection of a frame carries a category
\* that is not in the fixed enumeration (ship, person, other), the run
\* aborts with an error, whatever the mode and the ignore_class setting: no
\* corpus is returned for input whose processed frames hold such a box.
C13_UnknownCategoryAborts ==
    pc = "done" =>
        \A k \in 1..Len(ProcessedFrames) :
            ~HasUnknownCategory(ProcessedFrames[k])

\* The index of a class name in (ship, person, other), counted from 0.
ClassIndex(name) ==
    CHOOSE i \in 0..(Len(OBSTACLE_CLASSES) - 1) : OBSTACLE_CLASSES[i + 1] = name

\* C14: every emitted annotation and every emitted detection has
\* category_id in {0,1,2}: it is 0 when ignore_class is set, and otherwise
\* the index of the box's type in (ship, person, other), a detection's type
\* given as a number being taken as the id itself.
C14_CategoryIds ==
    /\ \A x \in 1..Len(annotation_entries) :
           /\ annotation_entries[x].category_id \in 0..2
           /\ ignore_class => annotation_entries[x].category_id = 0
    /\ \A x \in 1..Len(detection_entries) :
           /\ detection_entries[x].category_id \in 0..2
           /\ ignore_class => detection_entries[x].category_id = 0
    /\ (pc = "done" /\ ~ignore_class) =>
           \A k \in 1..Len(ProcessedFrames) :
               LET pf == ProcessedFrames[k]
                   obs == pf.dataset_frame.obstacles
                   det == pf.results_frame.detections
                   aes == EntriesOfImage(annotation_entries, k - 1)
                   des == EntriesOfImage(detection_entries, k - 1)
                   aem == AnnEmittedIndices(pf)
                   dem == DetEmittedIndices(pf)
               IN  /\ \A j \in 1..Len(aes) :
                          aes[j].category_id = ClassIndex(obs[NthOf(aem, j)].type)
                   /\ \A j \in 1..Len(des) :
                          LET type == det[NthOf(dem, j)].type
                          IN  des[j].category_id =
                                  IF type.kind = "str"
                                  THEN ClassIndex(type.name)
                                  ELSE type.id

\* C15: every mask value consulted by bbox_in_mask during corpus assembly
\* is 0 or 1: after the mask of a frame is built (any mode, exhaustive or
\* not, with or without a static mask of arbitrary non-zero values) and
\* after any number of negative annotations have been applied, no mask pixel
\* holds another value.
C15_MaskIsBinary ==
    pc \in {"obstacles", "detections"} =>
        \A p \in Pixels : mask[p] \in {0, 1}

\* C15 witness: the annotation loop of a frame is past a negative
\* annotation, in a sequence whose static mask holds the values 2 and 255
\* at pixels where the frame's mask holds 1.
C15_Witness ==
    /\ pc = "obstacles"
    /\ oi > 1
    /\ annotated_obstacles[oi - 1].type = "negative"
    /\ sequence_mask # <<>>
    /\ \E p \in Pixels : sequence_mask[1][p] = 2 /\ mask[p] = 1
    /\ \E p \in Pixels : sequence_mask[1][p] = 255 /\ mask[p] = 1
    /\ \E p \in Pixels : mask[p] = 0

\* ---------------------------------------------- calls of single functions
(***************************************************************************)
(* The second specification: a run is one call of compute_iou, of          *)
(* bbox_in_mask or of the score computation that ends                      *)
(* evaluate_detection_results, on arguments fixed by UtilsInit.  The call  *)
(* returns its value in `returned` or raises.                              *)
(***************************************************************************)

\* Box origins lie in -MaxShift..MaxShift, box sides in 0..MaxSide.
MaxShift == 1
MaxSide == 3
\* The statistics of the metric engine are multiples of 1 / StatDen.
StatDen == 2

UtilityBoxes ==
    {<<x, y, w, h>> : x, y \in (-MaxShift)..MaxShift, w, h \in 0..MaxSide}

OriginBoxes == {b \in UtilityBoxes : b[1] = 0 /\ b[2] = 0}

\* The 0/1 masks that are 0 outside the top left 2 x 2 pixels.
CornerMasks ==
    {[p \in Pixels |-> IF p \in S THEN 1 ELSE 0] :
        S \in SUBSET ((0..1) \X (0..1))}

\* A statistic: a fraction, nan, inf or -inf; after np.nan_to_num also the
\* largest finite float ("max") or its negative ("-max").
Num(n, d) == [kind |-> "num", num |-> n, den |-> d]
NotNum(kind) == [kind |-> kind, num |-> 0, den |-> 1]

\* What the engine reports: a value of [0,1], -1 for "not computed", or a
\* value that is not finite.
StatValues ==
    {Num(k, StatDen) : k \in 0..StatDen}
        \cup {Num(-StatDen, StatDen), NotNum("nan"), NotNum("inf"),
              NotNum("-inf")}

\* The twelve statistics of a call: a pair of them chosen freely, the
\* others all different.
SampleStats(i, j, p, r) ==
    [k \in 0..11 |-> IF k = i THEN p ELSE IF k = j THEN r ELSE Num(k + 1, 13)]

\* np.nan_to_num: nan becomes 0, an infinity the largest finite float of
\* its sign.
nan_to_num(v) ==
    IF v.kind = "nan" THEN Num(0, 1)
    ELSE IF v.kind = "inf" THEN NotNum("max")
    ELSE IF v.kind = "-inf" THEN NotNum("-max")
    ELSE v

\* stats[stats == -1] = 0
ResetNotComputed(v) ==
    IF v.kind = "num" /\ v.num = -v.den THEN Num(0, 1) ELSE v

\* evaluation.py, lines 347-348.
SanitizedStats(stats) ==
    [k \in DOMAIN stats |-> ResetNotComputed(nan_to_num(stats[k]))]

IsZero(v) == v.kind = "num" /\ v.num = 0

\* _f_score, lines 351-355.  The quotient of fractions is a fraction; a
\* quotient that involves the largest float, or a zero divisor, is some
\* float ("float") that the model does not compute.
f_score(precision, recall) ==
    IF ~IsZero(precision) /\ ~IsZero(recall)
    THEN IF /\ precision.kind = "num" /\ recall.kind = "num"
            /\ precision.num * recall.den + recall.num * precision.den # 0
         THEN Num(2 * precision.num * recall.num,
                  precision.num * recall.den + recall.num * precision.den)
         ELSE NotNum("float")
    ELSE Num(0, 1)

\* The statistic pairs of the mixed-up large-object score.
FScorePairsLargeMixed == <<<<0, 8>>, <<3, 9>>, <<4, 10>>, <<5, 10>>>>

\* Lines 357-360: the (precision, recall) indices of f_all, f_small,
\* f_medium and f_large.
FScorePairs == <<<<0, 8>>, <<3, 9>>, <<4, 10>>, <<5, 11>>>>

\* Lines 347-362.
f_scores(stats) ==
    LET clean == SanitizedStats(stats)
    IN  [n \in 1..Len(FScorePairs) |->
            f_score(clean[FScorePairs[n][1]], clean[FScorePairs[n][2]])]

\* compute_iou raises: the division of line 90 by zero, or an assertion of
\* lines 91-92.
ComputeIouException(bbox1, bbox2) ==
    LET iou == compute_iou(bbox1, bbox2)
    IN  IF iou.den = 0 THEN "ZeroDivisionError: float division by zero"
        ELSE IF iou.num * iou.den < 0 \/ iou.num * iou.den > iou.den * iou.den
        THEN "AssertionError"
        ELSE ""

\* The indices of the projected points within the image enlarged by the
\* margin, both borders included, x and y each tested on its own.
WithinMargin(projected_points) ==
    {i \in 1..Len(projected_points) :
        LET x == projected_points[i][1]
            y == projected_points[i][2]
        IN  /\ x >= -DANGER_ZONE_IMAGE_MARGIN * SubPixel
            /\ x <= (ImageWidth + DANGER_ZONE_IMAGE_MARGIN) * SubPixel
            /\ y >= -DANGER_ZONE_IMAGE_MARGIN * SubPixel
            /\ y <= (ImageHeight + DANGER_ZONE_IMAGE_MARGIN) * SubPixel}

\* The pixel a point falls on.
PixelOf(pt) == <<int(pt[1]), int(pt[2])>>

\* The boundary runs along the axes: each point within the margin falls on
\* the pixel column or the pixel row of the one before it.
AlongAxes(projected_points) ==
    LET kept == WithinMargin(projected_points)
    IN  \A j \in 2..Cardinality(kept) :
            LET a == PixelOf(projected_points[NthOf(kept, j - 1)])
                b == PixelOf(projected_points[NthOf(kept, j)])
            IN  a[1] = b[1] \/ a[2] = b[2]

\* Projected sample points: inside the image, on the border of the margin,
\* and just beyond the margin in x only or in y only.
MaxPoints == 3
InnerPoints ==
    {<<SubPixel + 1, SubPixel>>, <<SubPixel, 2 * SubPixel + 1>>,
     <<2 * SubPixel, 2 * SubPixel>>}
MarginPoints ==
    {<<-DANGER_ZONE_IMAGE_MARGIN * SubPixel, SubPixel>>,
     <<-DANGER_ZONE_IMAGE_MARGIN * SubPixel, 2 * SubPixel + 1>>,
     <<(ImageWidth + DANGER_ZONE_IMAGE_MARGIN) * SubPixel,
       (ImageHeight + DANGER_ZONE_IMAGE_MARGIN) * SubPixel>>}
BeyondPoints ==
    {<<-(DANGER_ZONE_IMAGE_MARGIN * SubPixel) - 1, SubPixel>>,
     <<SubPixel, (ImageHeight + DANGER_ZONE_IMAGE_MARGIN) * SubPixel + 1>>}
ProjectedSequences ==
    {pp \in UNION {[1..n -> InnerPoints \cup MarginPoints \cup BeyondPoints] :
                      n \in 0..MaxPoints} :
        AlongAxes(pp)}

\* Sea-edge curves: the curve along the top row, a curve around the top
\* left block, a curve down the right column, and curves with an empty
\* coordinate sequence.
MaxCurves == 2
LeftBlockEdge ==
    [x_axis |-> <<0, SubPixel + 1>>, y_axis |-> <<SubPixel, SubPixel + 1>>]
RightColumnEdge ==
    [x_axis |-> <<2 * SubPixel, 2 * SubPixel + 1>>,
     y_axis |-> <<2 * SubPixel + 1, 2 * SubPixel>>]
EmptyEdge == [x_axis |-> <<>>, y_axis |-> <<>>]
HalfEmptyEdge == [x_axis |-> <<SubPixel>>, y_axis |-> <<>>]
SeaEdgeLists ==
    UNION {[1..n -> {TopEdge, LeftBlockEdge, RightColumnEdge, EmptyEdge,
                     HalfEmptyEdge}] : n \in 0..MaxCurves}

UtilsInit ==
    /\ \/ \E a \in OriginBoxes, b \in UtilityBoxes :
              call = [fn |-> "compute_iou", bbox1 |-> a, bbox2 |-> b]
       \/ \E a \in UtilityBoxes :
              call = [fn |-> "compute_iou", bbox1 |-> a, bbox2 |-> a]
       \/ \E m \in CornerMasks, b \in UtilityBoxes :
              call = [fn |-> "bbox_in_mask", mask |-> m, rect |-> b]
       \/ \E n \in 1..Len(FScorePairs), p, r \in StatValues :
              call = [fn |-> "f_scores",
                      stats |-> SampleStats(FScorePairs[n][1],
                                            FScorePairs[n][2], p, r)]
       \/ \E pp \in ProjectedSequences :
              call = [fn |-> "construct_mask_from_danger_zone",
                      projected_points |-> pp]
       \/ \E edges \in SeaEdgeLists :
              call = [fn |-> "construct_mask_from_sea_edge",
                      sea_edges |-> edges]
    /\ returned = <<>>
    /\ files = NoFiles
    /\ stdout = <<>>
    /\ pc = "call"
    /\ error = ""
    /\ dataset = <<>> /\ results = <<>> /\ sequences = {}
    /\ mode = "full" /\ ignore_class = FALSE
    /\ dataset_sequences = <<>>
    /\ results_sequences = <<>>
    /\ si = 0 /\ fi = 0 /\ oi = 0 /\ di = 0
    /\ sequence_exhaustive = FALSE
    /\ sequence_mask = <<>>
    /\ frame_exhaustive = FALSE
    /\ mask = ZerosMask
    /\ image_entries = <<>>
    /\ annotation_entries = <<>>
    /\ detection_entries = <<>>
    /\ image_id = 0
    /\ annotation_id = 0

\* The call returns value.
ReturnValue(value) ==
    /\ returned' = <<value>>
    /\ pc' = "returned"
    /\ UNCHANGED <<shell, call, error, inputs, selected, si, fi, oi, di,
                   sequence_locals, frame_locals, corpus>>

CallComputeIou ==
    /\ pc = "call"
    /\ call.fn = "compute_iou"
    /\ ComputeIouException(call.bbox1, call.bbox2) = ""
    /\ ReturnValue(compute_iou(call.bbox1, call.bbox2))

CallComputeIouError ==
    /\ pc = "call"
    /\ call.fn = "compute_iou"
    /\ ComputeIouException(call.bbox1, call.bbox2) # ""
    /\ Raise(ComputeIouException(call.bbox1, call.bbox2))
    /\ UNCHANGED <<shell, utility, inputs, selected, si, fi, oi, di,
                   sequence_locals, frame_locals, corpus>>

CallBboxInMask ==
    /\ pc = "call"
    /\ call.fn = "bbox_in_mask"
    /\ ReturnValue(bbox_in_mask(call.mask, call.rect))

CallFScores ==
    /\ pc = "call"
    /\ call.fn = "f_scores"
    /\ ReturnValue(f_scores(call.stats))

CallDangerZoneMask ==
    /\ pc = "call"
    /\ call.fn = "construct_mask_from_danger_zone"
    /\ ~DangerZoneRaises(call.projected_points)
    /\ ReturnValue(construct_mask_from_danger_zone(call.projected_points))

CallDangerZoneMaskError ==
    /\ pc = "call"
    /\ call.fn = "construct_mask_from_danger_zone"
    /\ DangerZoneRaises(call.projected_points)
    /\ Raise("IndexError: list index out of range")
    /\ UNCHANGED <<shell, utility, inputs, selected, si, fi, oi, di,
                   sequence_locals, frame_locals, corpus>>

CallSeaEdgeMask ==
    /\ pc = "call"
    /\ call.fn = "construct_mask_from_sea_edge"
    /\ ReturnValue(construct_mask_from_sea_edge(call.sea_edges))

UtilsNext ==
    \/ CallComputeIou
    \/ CallComputeIouError
    \/ CallBboxInMask
    \/ CallFScores
    \/ CallDangerZoneMask
    \/ CallDangerZoneMaskError
    \/ CallSeaEdgeMask

UtilsSpec == UtilsInit /\ [][UtilsNext]_vars

\* ------------------------------------------- claims on single functions

\* The call is compute_iou(A, B) and has returned v.
IouReturned == call.fn = "compute_iou" /\ pc = "returned"

\* Two boxes do not overlap: their intersection has no area.
NoOverlap(a, b) ==
    \/ a[1] + a[3] <= b[1] \/ b[1] + b[3] <= a[1]
    \/ a[2] + a[4] <= b[2] \/ b[2] + b[4] <= a[2]
    \/ a[3] * a[4] = 0 \/ b[3] * b[4] = 0

\* C16: for all boxes A and B (x, y, w, h with w, h >= 0), compute_iou(A, B)
\* returns a value in [0,1] without error, returns 0 when A and B do not
\* overlap, and compute_iou(A, B) = compute_iou(B, A).
C16_IouRangeAndSymmetry ==
    call.fn = "compute_iou" =>
        /\ pc # "error"
        /\ pc = "returned" =>
               LET v == returned[1]
                   u == compute_iou(call.bbox2, call.bbox1)
               IN  /\ v.den > 0
                   /\ 0 <= v.num /\ v.num <= v.den
                   /\ NoOverlap(call.bbox1, call.bbox2) => v.num = 0
                   /\ v.num * u.den = u.num * v.den

\* C17: for every box A, compute_iou(A, A) = 1.
C17_IouOfBoxWithItself ==
    (call.fn = "compute_iou" /\ call.bbox1 = call.bbox2) =>
        /\ pc # "error"
        /\ pc = "returned" =>
               /\ returned[1].den > 0
               /\ returned[1].num = returned[1].den

\* The pixels of the image that a box covers.
BoxPixels(b) ==
    {p \in Pixels : /\ b[1] <= p[1] /\ p[1] < b[1] + b[3]
                    /\ b[2] <= p[2] /\ p[2] < b[2] + b[4]}

\* A mask is below another pixel by pixel.
MaskLeq(m1, m2) == \A p \in Pixels : m1[p] <= m2[p]

\* C18: bbox_in_mask is monotonic in the mask: for a fixed box and two
\* {0,1} masks m <= m' pixel by pixel, the coverage ratio of m' in the box
\* is at least that of m, so bbox_in_mask(m, box) true implies
\* bbox_in_mask(m', box) true; the result is true exactly when the sum of
\* mask values in the box's pixel region divided by w*h is strictly above
\* 0.5.
C18_BboxInMaskMonotonic ==
    (call.fn = "bbox_in_mask" /\ pc = "returned") =>
        LET b == call.rect
            area == b[3] * b[4]
        IN  /\ \A m2 \in CornerMasks :
                   MaskLeq(call.mask, m2) =>
                       /\ bbox_in_mask_ratio(m2, b).overlap
                              >= bbox_in_mask_ratio(call.mask, b).overlap
                       /\ returned[1] => bbox_in_mask(m2, b)
            /\ returned[1] <=>
                   /\ area > 0
                   /\ 2 * SumOver(call.mask, BoxPixels(b)) > area

\* A statistic with every value that is not finite, and -1, replaced by 0.
ZeroIfNotFinite(v) ==
    IF v.kind # "num" \/ v.num = -v.den THEN Num(0, 1) ELSE v

\* A statistic with nan and -1 replaced by 0.
ZeroIfNan(v) ==
    IF v.kind = "nan" \/ (v.kind = "num" /\ v.num = -v.den)
    THEN Num(0, 1) ELSE v

\* F1 = 2 * P * R / (P + R) of two fractions, 0 when one of them is 0.
F1(p, r) ==
    IF p.num = 0 \/ r.num = 0 THEN Num(0, 1)
    ELSE Num(2 * p.num * r.num, p.num * r.den + r.num * p.den)

\* Two fractions are the same number.
SameNumber(a, b) ==
    /\ a.kind = "num" /\ b.kind = "num"
    /\ a.num * b.den = b.num * a.den

\* A score lies in [0,1].
InUnitInterval(v) ==
    /\ v.kind = "num" /\ v.den > 0
    /\ 0 <= v.num /\ v.num <= v.den

\* The statistic pairs of the four scores, written out.
ScorePair(n) ==
    IF n = 1 THEN <<0, 8>> ELSE IF n = 2 THEN <<3, 9>>
    ELSE IF n = 3 THEN <<4, 10>> ELSE <<5, 11>>

NoPointSurvives(frame) ==
    \A i \in 1..Len(frame.projected_points) :
        LET pt == frame.projected_points[i]
        IN  \/ pt[1] < -DANGER_ZONE_IMAGE_MARGIN * SubPixel
            \/ pt[1] > (ImageWidth + DANGER_ZONE_IMAGE_MARGIN) * SubPixel
            \/ pt[2] < -DANGER_ZONE_IMAGE_MARGIN * SubPixel
            \/ pt[2] > (ImageHeight + DANGER_ZONE_IMAGE_MARGIN) * SubPixel

\* The run asks for the danger-zone mask of a frame without surviving
\* points: mode 'dz' and such a frame among the frames of the selected
\* sequences, which are the same in the two files.
RequestsEmptyDangerZone ==
    /\ call.fn = "convert_to_coco_structures"
    /\ mode = "dz"
    /\ ~SequenceMismatch
    /\ \E k \in 1..Len(ProcessedFrames) :
           NoPointSurvives(ProcessedFrames[k].dataset_frame)

\* C20: if no projected danger-zone sample point survives the
\* image-boundary filter, construct_mask_from_danger_zone fails with an
\* error and returns no mask (never an empty or degenerate mask), and the
\* run that requested the mask aborts: the loops of such a frame are never
\* entered, no corpus is returned, and the run goes on until an exception
\* ends it.
C20_EmptyDangerZoneAborts ==
    /\ (mode = "dz" /\ pc \in {"obstacles", "detections"}) =>
           ~NoPointSurvives(dataset_frame)
    /\ RequestsEmptyDangerZone =>
           /\ pc # "done"
           /\ pc = "error" \/ ENABLED Next

\* C20 witness: the run has ended with the IndexError of the danger-zone
\* builder on a frame none of whose points survives.
C20_Witness ==
    /\ RequestsEmptyDangerZone
    /\ pc = "error"
    /\ error = "IndexError: list index out of range"
    /\ NoPointSurvives(dataset_frame)

\* ------------------------------------------------- the command-line tool

\* A session of the tool: prepare-submission on a dataset file, a results
\* file and a source code path, then unpack-submission of the archive it
\* wrote.  stats is what the metric engine reports for each of the three
\* setups on the two files.

Setups == {"setup1", "setup2", "setup3"}

\* What the engine reports: a value of [0,1], -1 or nan.
EngineValues == {v \in StatValues : v.kind \in {"num", "nan"}}

\* The unit statistic.
One == Num(StatDen, StatDen)

\* The statistics of the three setups; precision and recall of the F_all
\* pair vary, the recall of the third setup is 1.
SessionStats ==
    {[s \in Setups |->
         IF s = "setup1" THEN SampleStats(0, 8, p1, r1)
         ELSE IF s = "setup2" THEN SampleStats(0, 8, p2, r2)
         ELSE SampleStats(0, 8, p3, One)] :
        p1 \in EngineValues, r1 \in EngineValues, p2 \in EngineValues,
        r2 \in EngineValues, p3 \in EngineValues}

\* The statistics of a re-evaluation against another copy of the dataset.
LocalStats == [s \in Setups |-> SampleStats(0, 8, One, One)]

\* Source code paths: a file, a directory of two files, a path that is
\* neither.
SourceFile == [kind |-> "file", name |-> "code.zip", entries |-> <<>>]
SourceDir ==
    [kind |-> "dir", name |-> "code",
     entries |-> <<[kind |-> "file", name |-> "main.py", entries |-> <<>>],
                   [kind |-> "file", name |-> "setup.py", entries |-> <<>>]>>]
SourceMissing == [kind |-> "missing", name |-> "nowhere", entries |-> <<>>]

\* __main__.py, lines 29-66: the scores of the three setups.
perform_full_evaluation(stats) == [s \in Setups |-> f_scores(stats[s])]

\* The sum of two fractions.
Add(a, b) == Num(a.num * b.den + b.num * a.den, a.den * b.den)

\* The format .03f of a score of [0,1]: the number of thousandths nearest
\* to it.
Format3(v) == (2000 * v.num + v.den) \div (2 * v.den)

\* The second line with the sum of the three scores in place of their mean.
DisplayFinalResultsUnaveraged(scores) ==
    LET f_s1 == scores["setup1"][1]
        f_s2 == scores["setup2"][1]
        f_s3 == scores["setup3"][1]
        f_avg == Add(Add(f_s1, f_s2), f_s3)
    IN  <<"Challenge results (F_avg, F_s1, F_s2, F_s3):",
          <<Format3(f_avg), Format3(f_s1), Format3(f_s2), Format3(f_s3)>>>>

\* _display_final_results, lines 78-86: the two lines printed to stdout.
display_final_results(scores) ==
    LET f_s1 == scores["setup1"][1]
        f_s2 == scores["setup2"][1]
        f_s3 == scores["setup3"][1]
        sum == Add(Add(f_s1, f_s2), f_s3)
        f_avg == Num(sum.num, 3 * sum.den)
    IN  <<"Challenge results (F_avg, F_s1, F_s2, F_s3):",
          <<Format3(f_avg), Format3(f_s1), Format3(f_s2), Format3(f_s3)>>>>

\* json.dumps of the results: an object of arrays of number literals (the
\* shortest literal that reads back as the same float).
json_dumps(scores) ==
    [json |-> "object",
     members |->
         [s \in DOMAIN scores |->
             [json |-> "array",
              items |-> [n \in DOMAIN scores[s] |->
                            [json |-> "number", literal |-> scores[s][n]]]]]]

\* json.load of such a document: a dictionary of lists of numbers.
json_load(document) ==
    [s \in DOMAIN document.members |->
        [n \in DOMAIN document.members[s].items |->
            document.members[s].items[n].literal]]

\* _collect_to_archive, lines 89-96: the member names a path adds to the
\* archive.  A name is the sequence of its components; the name of a
\* directory ends in an empty component.
RECURSIVE collect_to_archive(_, _)
collect_to_archive(path, archive_path) ==
    IF path.kind = "file" THEN {archive_path}
    ELSE IF path.kind = "dir"
    THEN (IF archive_path # <<>> THEN {Append(archive_path, "")} ELSE {})
             \cup UNION {collect_to_archive(path.entries[i],
                             Append(archive_path, path.entries[i].name)) :
                            i \in 1..Len(path.entries)}
    ELSE {}

\* Lines 196-214: the archive prepare-submission writes.
SubmissionArchive(scores, source_code_path) ==
    [names |-> {<<"detection_results.json">>, <<"evaluation_results.json">>,
                <<"source_code", "">>}
                   \cup collect_to_archive(source_code_path,
                            <<"source_code", source_code_path.name>>),
     evaluation_results |-> json_dumps(scores)]

SubmissionInit ==
    /\ \E stats \in SessionStats,
          source \in {SourceFile, SourceDir, SourceMissing},
          local \in {<<>>, <<LocalStats>>}, exists \in BOOLEAN :
           /\ (source = SourceMissing \/ exists) => local = <<>>
           /\ exists => source = SourceFile
           /\ call = [fn |-> "main", stats |-> stats,
                      source_code_path |-> source,
                      dataset_json_file |-> local]
           /\ files = [NoFiles EXCEPT
                          !.target_path = IF exists THEN <<{}>> ELSE <<>>]
    /\ stdout = <<>>
    /\ returned = <<>>
    /\ pc = "prepare-submission"
    /\ error = ""
    /\ dataset = <<>> /\ results = <<>> /\ sequences = {}
    /\ mode = "full" /\ ignore_class = FALSE
    /\ dataset_sequences = <<>>
    /\ results_sequences = <<>>
    /\ si = 0 /\ fi = 0 /\ oi = 0 /\ di = 0
    /\ sequence_exhaustive = FALSE
    /\ sequence_mask = <<>>
    /\ frame_exhaustive = FALSE
    /\ mask = ZerosMask
    /\ image_entries = <<>>
    /\ annotation_entries = <<>>
    /\ detection_entries = <<>>
    /\ image_id = 0
    /\ annotation_id = 0

\* cmd_prepare_submission, lines 150-218.
cmd_prepare_submission ==
    /\ pc = "prepare-submission"
    /\ call.source_code_path.kind \in {"file", "dir"}
    /\ LET evaluated == perform_full_evaluation(call.stats)
       IN  /\ stdout' = display_final_results(evaluated)
           /\ files' = [files EXCEPT !.submission_zip =
                           <<SubmissionArchive(evaluated,
                                               call.source_code_path)>>]
    /\ pc' = "unpack-submission"
    /\ UNCHANGED <<utility, error, inputs, selected, si, fi, oi, di,
                   sequence_locals, frame_locals, corpus>>

\* Lines 179-181: the source code path is neither a file nor a directory.
cmd_prepare_submission_exit ==
    /\ pc = "prepare-submission"
    /\ call.source_code_path.kind \notin {"file", "dir"}
    /\ Raise("SystemExit: -1")
    /\ stdout' = <<>>
    /\ UNCHANGED <<files, utility, inputs, selected, si, fi, oi, di,
                   sequence_locals, frame_locals, corpus>>

\* cmd_unpack_submission, lines 221-270.
cmd_unpack_submission ==
    /\ pc = "unpack-submission"
    /\ files.target_path = <<>>
    /\ LET archive == files.submission_zip[1]
           unpacked == archive
           loaded ==
               IF call.dataset_json_file # <<>>
               THEN perform_full_evaluation(call.dataset_json_file[1])
               ELSE json_load(unpacked.evaluation_results)
       IN  /\ files' = [files EXCEPT !.target_path = <<unpacked>>]
           /\ stdout' = display_final_results(loaded)
    /\ pc' = "done"
    /\ UNCHANGED <<utility, error, inputs, selected, si, fi, oi, di,
                   sequence_locals, frame_locals, corpus>>

\* Line 249: os.makedirs of a target directory that exists.
cmd_unpack_submission_exists ==
    /\ pc = "unpack-submission"
    /\ files.target_path # <<>>
    /\ Raise("FileExistsError")
    /\ stdout' = <<>>
    /\ UNCHANGED <<files, utility, inputs, selected, si, fi, oi, di,
                   sequence_locals, frame_locals, corpus>>

SubmissionNext ==
    \/ cmd_prepare_submission
    \/ cmd_prepare_submission_exit
    \/ cmd_unpack_submission
    \/ cmd_unpack_submission_exists

SubmissionSpec == SubmissionInit /\ [][SubmissionNext]_vars

\* ------------------------------------------------------------ mask builders

DangerZoneReturned ==
    /\ call.fn = "construct_mask_from_danger_zone"
    /\ pc = "returned"

\* C21: when at least one projected point survives, the danger-zone polygon
\* is exactly (0, H), (0, y_first), the surviving points in sampling order
\* (as pixels), (W, y_last), (W, H), (0, H); the survivors are exactly the
\* projected points with -margin <= x <= W + margin and
\* -margin <= y <= H + margin, each point tested on its own; the polygon
\* holds both bottom corners of the image, and the returned mask holds only
\* the values 0 and 255: 0 on the pixels the polygon covers, 255 elsewhere.
C21_DangerZonePolygon ==
    DangerZoneReturned =>
        LET pts == call.projected_points
            kept == WithinMargin(pts)
            k == Cardinality(kept)
            survivor(j) == PixelOf(pts[NthOf(kept, j)])
            polygon == DangerZonePolygon(pts)
            closed ==
                [i \in 1..(k + 5) |->
                    IF i = 1 THEN <<0, ImageHeight>>
                    ELSE IF i = 2 THEN <<0, survivor(1)[2]>>
                    ELSE IF i <= k + 2 THEN survivor(i - 2)
                    ELSE IF i = k + 3 THEN <<ImageWidth, survivor(k)[2]>>
                    ELSE IF i = k + 4 THEN <<ImageWidth, ImageHeight>>
                    ELSE <<0, ImageHeight>>]
        IN  /\ k >= 1
            /\ polygon = closed
            /\ \E i \in 1..Len(polygon) : polygon[i] = <<0, ImageHeight>>
            /\ \E i \in 1..Len(polygon) :
                   polygon[i] = <<ImageWidth, ImageHeight>>
            /\ \A p \in Pixels : returned[1][p] \in {0, 255}
            /\ \A p \in Pixels :
                   returned[1][p] = 0 <=> p \in FillPoly(closed)

\* C21 witness: a mask is returned for a boundary whose first point lies on
\* the border of the margin, whose second point is dropped in mid-sequence,
\* and whose last point lies at another height than the first; part of the
\* image is outside the danger zone and part inside.
C21_Witness ==
    /\ DangerZoneReturned
    /\ LET pts == call.projected_points
       IN  /\ Len(pts) = 3
           /\ WithinMargin(pts) = {1, 3}
           /\ pts[1][1] = -DANGER_ZONE_IMAGE_MARGIN * SubPixel
           /\ PixelOf(pts[1])[2] # PixelOf(pts[3])[2]
           /\ pts[2][2] = pts[1][2]
    /\ \E p \in Pixels : returned[1][p] = 0
    /\ \E p \in Pixels : returned[1][p] = 255

SeaEdgeReturned ==
    /\ call.fn = "construct_mask_from_sea_edge"
    /\ pc = "returned"

\* The indices of the curves whose x and y sequences are both non-empty.
NonEmptyCurves(sea_edges) ==
    {i \in 1..Len(sea_edges) :
        sea_edges[i].x_axis # <<>> /\ sea_edges[i].y_axis # <<>>}

\* (x_first, 0), the points of the curve in order (as pixels), (x_last, 0).
ClosedCurve(sea_edge) ==
    LET x == sea_edge.x_axis
        y == sea_edge.y_axis
        n == Len(x)
    IN  [i \in 1..(n + 2) |->
            IF i = 1 THEN <<int(x[1]), 0>>
            ELSE IF i = n + 2 THEN <<int(x[n]), 0>>
            ELSE <<int(x[i - 1]), int(y[i - 1])>>]

\* C22: construct_mask_from_sea_edge returns an all-zero mask when the curve
\* list is empty or every curve has an empty coordinate sequence; each curve
\* with non-empty x and y sequences contributes exactly one polygon made of
\* (x_first, 0), the curve's points in order, and (x_last, 0); the returned
\* mask holds only the values 0 and 255: 255 on the pixels these polygons
\* cover, 0 elsewhere.
C22_SeaEdgeMask ==
    SeaEdgeReturned =>
        LET sea_edges == call.sea_edges
            full == NonEmptyCurves(sea_edges)
        IN  /\ full = {} => \A p \in Pixels : returned[1][p] = 0
            /\ \A i \in full :
                   SeaEdgePolygon(sea_edges[i]) = ClosedCurve(sea_edges[i])
            /\ SeaEdgePolygons(sea_edges)
                   = {ClosedCurve(sea_edges[i]) : i \in full}
            /\ \A p \in Pixels : returned[1][p] \in {0, 255}
            /\ \A p \in Pixels :
                   returned[1][p] = 255
                       <=> \E i \in full :
                               p \in FillPoly(ClosedCurve(sea_edges[i]))

\* C22 witness: a mask is returned for a list of one curve with an empty
\* coordinate sequence and one curve with points below the top row; part
\* of the image is above the edge and part below.
C22_Witness ==
    /\ SeaEdgeReturned
    /\ Len(call.sea_edges) = 2
    /\ Cardinality(NonEmptyCurves(call.sea_edges)) = 1
    /\ \E i \in NonEmptyCurves(call.sea_edges) :
           \E j \in 1..Len(call.sea_edges[i].y_axis) :
               int(call.sea_edges[i].y_axis[j]) > 0
    /\ \E p \in Pixels : returned[1][p] = 0
    /\ \E p \in Pixels : returned[1][p] = 255 /\ p[2] > 0

\* The sequence declares a static mask and its mask image cannot be loaded.
DeclaredMaskUnreadable(seq) ==
    seq.mask # <<>> /\ seq.ignore_mask_png = <<>>

\* C23: if a sequence declares a static mask ('mask' key present) and the
\* mask image cannot be loaded, the run aborts with an error: no frame of
\* such a sequence is processed as if the sequence had no static mask, and
\* no corpus is returned.
C23_UnreadableMaskAborts ==
    \A i \in 1..Len(dataset_sequences) :
        DeclaredMaskUnreadable(dataset_sequences[i]) =>
            /\ pc # "done"
            /\ ~(si = i /\ pc \in {"obstacles", "detections"})

\* The F_all score of a setup, from the statistics of the engine.
FAll(stats) == F1(ZeroIfNan(stats[0]), ZeroIfNan(stats[8]))

\* The number of thousandths nearest to a fraction of [0,1].
Thousandths(v) ==
    CHOOSE t \in 0..1000 :
        /\ 2 * (1000 * v.num - t * v.den) <= v.den
        /\ 2 * (t * v.den - 1000 * v.num) < v.den

FreshMask(seq, frame, exhaustive, m) ==
    [p \in Pixels |->
        IF ~exhaustive /\ m # "dz" THEN 1
        ELSE IF SourceNonZero(seq, frame, m, p) THEN 1 ELSE 0]

\* What the image load of a sequence gave: the static mask, or none.
LoadedMask(seq) == IF seq.mask # <<>> THEN seq.ignore_mask_png ELSE <<>>

\* C25: mask buffers are frame-local.  The mask of each frame is built
\* afresh, from the frame and its sequence alone; the region set to 1 by a
\* negative annotation of one frame has no effect on the ignore flag of any
\* box of a later frame (outside mode 'dz', where every box is emitted, the
\* flag of each box is its coverage by the fresh mask with the negatives of
\* its own frame); and the static mask of the sequence holds the same values
\* for the last frame as for the first: processing a frame never writes
\* into it.
C25_MaskFrameLocal ==
    /\ (pc = "obstacles" /\ oi = 1) =>
           mask = FreshMask(dataset_sequences[si], dataset_frame,
                            frame_exhaustive, mode)
    /\ pc \in {"frame", "obstacles", "detections"} =>
           sequence_mask = LoadedMask(dataset_sequences[si])
    /\ (pc = "done" /\ mode # "dz") =>
           \A k \in 1..Len(ProcessedFrames) :
               LET pf == ProcessedFrames[k]
                   obs == pf.dataset_frame.obstacles
                   det == pf.results_frame.detections
                   nn == NonNegativeIndices(pf)
                   fresh == FreshMask(pf.sequence, pf.dataset_frame,
                                      IsExhaustiveFrame(pf), mode)
                   aes == EntriesOfImage(annotation_entries, k - 1)
                   des == EntriesOfImage(detection_entries, k - 1)
                   flag(m, bbox) == IF bbox_in_mask(m, bbox) THEN 1 ELSE 0
               IN  /\ Len(aes) = Cardinality(nn)
                   /\ \A j \in 1..Len(aes) :
                          aes[j].ignore =
                              flag(NegativesApplied(fresh, obs,
                                                    NthOf(nn, j) - 1),
                                   obs[NthOf(nn, j)].bbox)
                   /\ Len(des) = Len(det)
                   /\ \A j \in 1..Len(des) :
                          des[j].ignore =
                              flag(NegativesApplied(fresh, obs, Len(obs)),
                                   det[j].bbox)

\* C25 witness: a corpus returned in mode 'full' for a sequence with a
\* static mask and two frames, the first with a negative annotation: a box
\* that the negative covers in the first frame is emitted there with
\* ignore=1, and the same box in the second frame with ignore=0.
C25_Witness ==
    /\ pc = "done" /\ mode = "full"
    /\ \E k \in 1..(Len(ProcessedFrames) - 1) :
           LET first == ProcessedFrames[k]
               second == ProcessedFrames[k + 1]
           IN  /\ first.sequence = second.sequence
               /\ first.sequence.mask # <<>>
               /\ \E i \in 1..Len(first.dataset_frame.obstacles) :
                      first.dataset_frame.obstacles[i].type = "negative"
               /\ \E x, y \in 1..Len(annotation_entries) :
                      /\ annotation_entries[x].image_id = k - 1
                      /\ annotation_entries[y].image_id = k
                      /\ annotation_entries[x].bbox = annotation_entries[y].bbox
                      /\ annotation_entries[x].ignore = 1
                      /\ annotation_entries[y].ignore = 0

\* The area two boxes share, and the area of a box.
SharedArea(a, b) ==
    LET w == Min(a[1] + a[3], b[1] + b[3]) - Max(a[1], b[1])
        h == Min(a[2] + a[4], b[2] + b[4]) - Max(a[2], b[2])
    IN  IF w > 0 /\ h > 0 THEN w * h ELSE 0

BoxArea(b) == b[3] * b[4]

\* IoU(a, b) > 0.3, the IoU being shared / (area a + area b - shared).
MatchedPair(a, b) ==
    10 * SharedArea(a, b)
        > 3 * (BoxArea(a) + BoxArea(b) - SharedArea(a, b))

\* C26: matched pairs survive together in mode 'dz': for any non-negative
\* annotation a and detection d of the same frame with IoU(a, d) strictly
\* above 0.3, both a and d are emitted into the corpus, whatever their mask
\* coverage.
C26_MatchedPairsSurvive ==
    (pc = "done" /\ mode = "dz") =>
        \A k \in 1..Len(ProcessedFrames) :
            LET pf == ProcessedFrames[k]
                obs == pf.dataset_frame.obstacles
                det == pf.results_frame.detections
                aes == EntriesOfImage(annotation_entries, k - 1)
                des == EntriesOfImage(detection_entries, k - 1)
            IN  \A i \in NonNegativeIndices(pf), j \in 1..Len(det) :
                    MatchedPair(obs[i].bbox, det[j].bbox) =>
                        /\ \E x \in 1..Len(aes) :
                               /\ aes[x].bbox = obs[i].bbox
                               /\ aes[x].area = obs[i].area
                        /\ \E y \in 1..Len(des) :
                               des[y].bbox = det[j].bbox

\* C26 witness: a corpus returned in mode 'dz' with an annotation and a
\* detection of the same frame on the same box outside the danger zone,
\* both emitted with ignore=1.
C26_Witness ==
    /\ pc = "done" /\ mode = "dz"
    /\ \E x \in 1..Len(annotation_entries), y \in 1..Len(detection_entries) :
           /\ annotation_entries[x].image_id = detection_entries[y].image_id
           /\ MatchedPair(annotation_entries[x].bbox,
                          detection_entries[y].bbox)
           /\ annotation_entries[x].ignore = 1
           /\ detection_entries[y].ignore = 1

\* C27: for a non-exhaustive frame processed with mode 'edge' or 'full'
\* (all-ones mask), every annotation and every detection emitted for that
\* frame carries ignore=1, for every box with positive width and height,
\* boxes that extend partly or wholly beyond the image bounds included.
C27_NonExhaustiveAllIgnored ==
    (pc = "done" /\ mode \in {"edge", "full"}) =>
        \A k \in 1..Len(ProcessedFrames) :
            ~IsExhaustiveFrame(ProcessedFrames[k]) =>
                LET aes == EntriesOfImage(annotation_entries, k - 1)
                    des == EntriesOfImage(detection_entries, k - 1)
                    positive(b) == b[3] > 0 /\ b[4] > 0
                IN  /\ \A j \in 1..Len(aes) :
                           positive(aes[j].bbox) => aes[j].ignore = 1
                    /\ \A j \in 1..Len(des) :
                           positive(des[j].bbox) => des[j].ignore = 1

====
